---- MODULE Spec2Model ----
(***************************************************************************)
(* A model of the codemod package (src/src/codemod/codemod.go): a Go file  *)
(* is parsed into a syntax tree of heap-allocated nodes, queries walk the  *)
(* tree with ast.Inspect and hand out handles (a node plus its chain of    *)
(* NodeWithParent records), and the mutation primitives rewrite the        *)
(* statement list of a block, or the specifier list of an import           *)
(* declaration, through such a handle.                                     *)
(*                                                                         *)
(* A syntax tree node is a record [kind, val, pos, kids] stored in `heap`  *)
(* at the index that is its address: pointer equality is equality of       *)
(* indices, reflect.DeepEqual is equality of the records reached. `kids`   *)
(* lists the children in the order ast.Walk visits them; for a BlockStmt   *)
(* it is the field List, for a GenDecl the field Specs.                    *)
(***************************************************************************)
EXTENDS Integers, Sequences, FiniteSets, TLC

VARIABLES
    input,      \* the source text handed to New, as a structured description
    pc,         \* "start" before New, "ready" with a SourceFile, "panicked"
    heap,       \* the syntax tree nodes, indexed by address
    file,       \* SourceFile.file: address of the *ast.File, Nil before New
    resultKind, \* which query produced `result`
    result,     \* the handles returned by the last query, in encounter order
    imports,    \* the *Imports returned by Imports(): [specs |-> GenDecl or Nil]
    before,     \* the heap as it was when the last mutation was called
    last,       \* the last mutation: operation, handle, argument, outcome
    nops,       \* number of statement mutations applied
    iops,       \* number of import mutations applied
    printed,    \* what the SourceCode() calls returned, oldest first
    gen,        \* number of texts parsed by New so far
    zeroX,      \* the package variable x that zeroPositionInformation counts in
    stack,      \* the calls of zeroPositionInformation still to be made, next first
    worker,     \* the goroutine of each repository: its position and locals
    mainPc,     \* where applyCodemodsToRemoteRepositories itself is
    sem,        \* the weight acquired from the semaphore
    waitGroup,  \* the counter of the sync.WaitGroup
    resultLock, \* the holder of the mutex, Nil when free
    applyResult, \* the applyCodemodResult being filled
    cwd,        \* the working directory of the process
    disk        \* the clones on disk and who rewrote their files

\* the state of the position stripping, and of the apply layer
zeroVars == <<zeroX, stack>>

applyVars == <<worker, mainPc, sem, waitGroup, resultLock, applyResult, cwd, disk>>

vars == <<input, pc, heap, file, resultKind, result, imports, before, last, nops, iops,
          printed, gen, zeroVars, applyVars>>

(***************************************************************************)
(* Bounds of the model.                                                    *)
(***************************************************************************)
\* total weight of a source file: one per declaration, one per statement
\* (nested statements included), one per import specifier
MaxSize == 4
\* statement mutations applied through the handles of one query
MaxOps == 2
\* Add / Remove calls on one *Imports
MaxImportOps == 3
\* SourceCode() calls in one run
MaxPrints == 3
\* elements of a composite literal
MaxElts == 2
\* Has / RenameKey / Field calls through the handles of one query
MaxMapOps == 2
\* texts handed to New in one run
MaxParses == 2
\* parameters of a function or method, arguments of a call
MaxParams == 3
\* statements of a text handed to Ast, and of a function body in it
MaxFragStmts == 2
\* assignments of the function FindAssignments searches, and the
\* left-hand sides of one assignment
MaxAssigns == 2
MaxLhs == 2
\* Ast calls in one process
MaxAstCalls == 2
\* the number of counted calls after which zeroPositionInformation gives up
ZeroLimit == 1000
\* repositories given to applyCodemodsToRemoteRepositories, steps interleaved
MaxRepos == 2
\* repositories given to the worker pool, one more than its weight
MaxPoolRepos == 11
\* the weight of the semaphore of applyCodemodsToRemoteRepositories
SemWeight == 10
\* files below the local directory, and source-file codemods given to Apply
MaxFiles == 2
MaxCodemods == 2
\* FindMapLiteral calls on one file
MaxLitCalls == 2

\* the nil pointer / nil interface value
Nil == 0

\* no call of zeroPositionInformation was made yet: `var x int = 1`
ZeroIdle == zeroX = 1 /\ stack = <<>>

\* applyCodemodsToRemoteRepositories is not running
ApplyIdle ==
    /\ worker = <<>>
    /\ mainPc = "idle"
    /\ sem = 0
    /\ waitGroup = 0
    /\ resultLock = Nil
    /\ applyResult = [Changed |-> <<>>, NotChanged |-> <<>>, WithErrors |-> <<>>]
    /\ cwd = 0
    /\ disk = {}

\* import paths, as sequences of characters
Paths == {<<"a">>, <<"b">>}

(***************************************************************************)
(* Sequences helpers.                                                      *)
(***************************************************************************)
RECURSIVE Flatten(_)
Flatten(ss) == IF ss = <<>> THEN <<>> ELSE Head(ss) \o Flatten(Tail(ss))

Reverse(s) == [i \in 1..Len(s) |-> s[Len(s) + 1 - i]]

Range(s) == {s[i] : i \in 1..Len(s)}

Count(s, x) == Cardinality({i \in 1..Len(s) : s[i] = x})

RECURSIVE Filter(_, _)
\* the subsequence of s whose elements are in the set keep
Filter(s, keep) ==
    IF s = <<>> THEN <<>>
    ELSE IF Head(s) \in keep THEN <<Head(s)>> \o Filter(Tail(s), keep)
         ELSE Filter(Tail(s), keep)

(***************************************************************************)
(* Source texts.  A statement is [t, body]: "assign" is `x := 1`, "call"   *)
(* is the expression statement `f()`, "if" is `if c { body }`, "switch"    *)
(* is `switch t {}`.  A declaration is [t, body]: "import" with its list   *)
(* of paths, "var" is the top-level `var v = f()`, "func" is a function    *)
(* declaration with its body.                                              *)
(***************************************************************************)
Stmt(t, body) == [t |-> t, body |-> body]

Atoms == {Stmt("assign", <<>>), Stmt("call", <<>>), Stmt("if", <<>>), Stmt("switch", <<>>)}

RECURSIVE StmtSeqs(_)
\* statement lists of total weight exactly n
StmtSeqs(n) ==
    IF n = 0 THEN {<<>>}
    ELSE UNION {
        {<<s>> \o rest :
            s \in (IF k = 1 THEN Atoms ELSE {Stmt("if", b) : b \in StmtSeqs(k - 1) \ {<<>>}}),
            rest \in StmtSeqs(n - k)} : k \in 1..n}

RECURSIVE PathSeqs(_)
\* path lists of length exactly n
PathSeqs(n) ==
    IF n = 0 THEN {<<>>}
    ELSE {<<p>> \o rest : p \in Paths, rest \in PathSeqs(n - 1)}

RECURSIVE ImportSeqs(_)
\* lists of import declarations of total weight exactly n
ImportSeqs(n) ==
    IF n = 0 THEN {<<>>}
    ELSE UNION {
        {<<Stmt("import", ps)>> \o rest : ps \in PathSeqs(k - 1), rest \in ImportSeqs(n - k)}
            : k \in 1..n}

RECURSIVE DeclSeqs(_)
\* lists of var and func declarations of total weight exactly n
DeclSeqs(n) ==
    IF n = 0 THEN {<<>>}
    ELSE UNION {
        {<<d>> \o rest :
            d \in ({Stmt("func", b) : b \in StmtSeqs(k - 1)}
                    \cup (IF k = 1 THEN {Stmt("var", <<>>)} ELSE {})),
            rest \in DeclSeqs(n - k)} : k \in 1..n}

\* a Go file: the package clause (absent in a text that does not parse),
\* the import declarations, then the other declarations
Sources ==
    UNION {
        {[pkg |-> p, decls |-> i \o d] :
            p \in BOOLEAN, i \in ImportSeqs(km[1]), d \in DeclSeqs(km[2])}
        : km \in {x \in (0..MaxSize) \X (0..MaxSize) : x[1] + x[2] <= MaxSize}}

(***************************************************************************)
(* Files with a composite literal: `func fn() { x := T{e, ...} }`.  T is a *)
(* map type or the struct type S; an element is given by its key: a string *)
(* literal, an identifier, or none (a positional element); its value is    *)
(* the string literal "v".                                                 *)
(***************************************************************************)
MapTypes == {<<"map", "string", "string">>, <<"map", "string", "int">>}

StructType == <<"S">>

Names == {<<"a">>, <<"b">>}

Key(k, name) == [k |-> k, name |-> name]

\* a map literal has a key in every element, a literal or a constant
MapKeys == {Key("str", n) : n \in Names} \cup {Key("id", <<"k">>)}

\* a struct literal names the field of every element, or of none
FieldKeys == {Key("id", n) : n \in Names}

\* the sequences over S of length at most n
SeqsUpTo(S, n) == UNION {[1..k -> S] : k \in 0..n}

Literals ==
    {[type |-> t, elts |-> e] : t \in MapTypes, e \in SeqsUpTo(MapKeys, MaxElts)}
    \cup {[type |-> StructType, elts |-> e] : e \in SeqsUpTo(FieldKeys, MaxElts)}
    \cup {[type |-> StructType, elts |-> e] :
            e \in SeqsUpTo({Key("none", <<>>)}, MaxElts) \ {<<>>}}

\* the files: one function whose body is one assignment of a literal, or
\* `x := 1`, or a call
MapSources ==
    {[pkg |-> TRUE, decls |-> <<Stmt("func", <<st>>)>>] :
        st \in {Stmt("lit", l) : l \in Literals}
                \cup {Stmt("assign", <<>>), Stmt("call", <<>>)}}

(***************************************************************************)
(* The parser (go/parser.ParseFile as New uses it).  Every operator takes  *)
(* a heap and returns the heap extended with the nodes of the construct,   *)
(* the construct's own node last, so its address is Len of the result.     *)
(* A parsed node carries a source position, which no other node of the     *)
(* same parse has; a node whose positions were zeroed carries 0.           *)
(***************************************************************************)
Node(kind, val, pos, kids) == [kind |-> kind, val |-> val, pos |-> pos, kids |-> kids]

Alloc(h, kind, val, kids) == Append(h, Node(kind, val, Len(h) + 1, kids))

Quote(s) == <<"\"">> \o s \o <<"\"">>

Unquote(s) == SubSeq(s, 2, Len(s) - 1)

ParseCall(h) ==
    LET h1 == Alloc(h, "Ident", <<"f">>, <<>>)
    IN  Alloc(h1, "CallExpr", <<>>, <<Len(h1)>>)

\* a node whose one child is the node allocated last
WrapIn(h, kind, val) == Alloc(h, kind, val, <<Len(h)>>)

\* the declaration statement `var v = f()`
ParseVarStmt(h) ==
    WrapIn(WrapIn(Alloc(ParseCall(Alloc(h, "Ident", <<"v">>, <<>>)),
                        "ValueSpec", <<>>, <<Len(h) + 1, Len(h) + 3>>),
                  "GenDecl", <<"var">>),
           "DeclStmt", <<>>)

\* the expression statement `myfunc()`
ParseFuncCall(h) ==
    WrapIn(WrapIn(Alloc(h, "Ident", <<"my", "func">>, <<>>), "CallExpr", <<>>),
           "ExprStmt", <<>>)

\* a node whose children are the two nodes allocated last
AllocPair(h, kind) == Alloc(h, kind, <<>>, <<Len(h) - 1, Len(h)>>)

\* the type of a composite literal
ParseType(h, t) ==
    IF t[1] = "map"
    THEN AllocPair(Alloc(Alloc(h, "Ident", <<t[2]>>, <<>>), "Ident", <<t[3]>>, <<>>),
                   "MapType")
    ELSE Alloc(h, "Ident", t, <<>>)

\* the number of nodes of a type
TypeSize(t) == IF t[1] = "map" THEN 3 ELSE 1

ParseKey(h, e) ==
    IF e.k = "str" THEN Alloc(h, "BasicLit", Quote(e.name), <<>>)
    ELSE Alloc(h, "Ident", e.name, <<>>)

\* one element: `key: "v"`, or `"v"`
ParseElt(h, e) ==
    IF e.k = "none" THEN Alloc(h, "BasicLit", Quote(<<"v">>), <<>>)
    ELSE AllocPair(Alloc(ParseKey(h, e), "BasicLit", Quote(<<"v">>), <<>>), "KeyValueExpr")

\* the number of nodes of an element
EltSize(e) == IF e.k = "none" THEN 1 ELSE 3

\* the list r with the address id put in front
Cons(id, r) == [h |-> r.h, ids |-> <<id>> \o r.ids]

RECURSIVE ParseElts(_, _)
ParseElts(h, es) ==
    IF es = <<>> THEN [h |-> h, ids |-> <<>>]
    ELSE Cons(Len(h) + EltSize(Head(es)), ParseElts(ParseElt(h, Head(es)), Tail(es)))

\* CompositeLit: kids are Type, then Elts
AllocLit(r, type) == Alloc(r.h, "CompositeLit", <<>>, <<type>> \o r.ids)

ParseLit(h, l) ==
    AllocLit(ParseElts(ParseType(h, l.type), l.elts), Len(h) + TypeSize(l.type))

\* the assignment of the node allocated last to the node at lhs
AllocAssign(h, lhs) == Alloc(h, "AssignStmt", <<":=">>, <<lhs, Len(h)>>)

\* `x := T{...}`, x being the node at lhs
ParseLitAssign(h, lhs, l) == AllocAssign(ParseLit(h, l), lhs)

RECURSIVE ParseStmt(_, _)
RECURSIVE ParseStmts(_, _)
\* [h |-> heap, ids |-> addresses of the statements parsed, in order]
ParseStmts(h, ss) ==
    IF ss = <<>> THEN [h |-> h, ids |-> <<>>]
    ELSE LET h1 == ParseStmt(h, Head(ss))
             r  == ParseStmts(h1, Tail(ss))
         IN  [h |-> r.h, ids |-> <<Len(h1)>> \o r.ids]

ParseBlock(h, ss) ==
    LET r == ParseStmts(h, ss) IN Alloc(r.h, "BlockStmt", <<>>, r.ids)

ParseStmt(h, s) ==
    CASE s.t = "assign" ->
            LET h1 == Alloc(h, "Ident", <<"x">>, <<>>)
                h2 == Alloc(h1, "BasicLit", <<"1">>, <<>>)
            IN  Alloc(h2, "AssignStmt", <<":=">>, <<Len(h1), Len(h2)>>)
      [] s.t = "assign2" ->
            LET h1 == Alloc(h, "Ident", <<"y">>, <<>>)
                h2 == Alloc(h1, "BasicLit", <<"2">>, <<>>)
            IN  Alloc(h2, "AssignStmt", <<":=">>, <<Len(h1), Len(h2)>>)
      [] s.t = "lit" ->
            ParseLitAssign(Alloc(h, "Ident", <<"x">>, <<>>), Len(h) + 1, s.body)
      [] s.t = "call" ->
            LET h1 == ParseCall(h)
            IN  Alloc(h1, "ExprStmt", <<>>, <<Len(h1)>>)
      [] s.t = "funcall" -> ParseFuncCall(h)
      [] s.t = "var" -> ParseVarStmt(h)
      [] s.t = "if" ->
            LET h1 == Alloc(h, "Ident", <<"c">>, <<>>)
                h2 == ParseBlock(h1, s.body)
            IN  Alloc(h2, "IfStmt", <<>>, <<Len(h1), Len(h2)>>)
      [] s.t = "switch" ->
            LET h1 == Alloc(h, "Ident", <<"t">>, <<>>)
                h2 == ParseBlock(h1, <<>>)
            IN  Alloc(h2, "SwitchStmt", <<>>, <<Len(h1), Len(h2)>>)

RECURSIVE ParseSpecs(_, _)
ParseSpecs(h, ps) ==
    IF ps = <<>> THEN [h |-> h, ids |-> <<>>]
    ELSE LET h1 == Alloc(h, "BasicLit", Quote(Head(ps)), <<>>)
             h2 == Alloc(h1, "ImportSpec", <<>>, <<Len(h1)>>)
             r  == ParseSpecs(h2, Tail(ps))
         IN  [h |-> r.h, ids |-> <<Len(h2)>> \o r.ids]

ParseDecl(h, d) ==
    CASE d.t = "import" ->
            LET r == ParseSpecs(h, d.body)
            IN  Alloc(r.h, "GenDecl", <<"import">>, r.ids)
      [] d.t = "var" ->
            LET h1 == Alloc(h, "Ident", <<"v">>, <<>>)
                h2 == ParseCall(h1)
                h3 == Alloc(h2, "ValueSpec", <<>>, <<Len(h1), Len(h2)>>)
            IN  Alloc(h3, "GenDecl", <<"var">>, <<Len(h3)>>)
      [] d.t = "func" ->
            LET h1 == Alloc(h, "Ident", <<"fn">>, <<>>)
                h2 == Alloc(h1, "FieldList", <<>>, <<>>)
                h3 == Alloc(h2, "FuncType", <<>>, <<Len(h2)>>)
                h4 == ParseBlock(h3, d.body)
            IN  Alloc(h4, "FuncDecl", <<>>, <<Len(h1), Len(h3), Len(h4)>>)

RECURSIVE ParseDecls(_, _)
ParseDecls(h, ds) ==
    IF ds = <<>> THEN [h |-> h, ids |-> <<>>]
    ELSE LET h1 == ParseDecl(h, Head(ds))
             r  == ParseDecls(h1, Tail(ds))
         IN  [h |-> r.h, ids |-> <<Len(h1)>> \o r.ids]

\* parser.ParseFile: a text without package clause is a syntax error
ParseOK(src) == src.pkg

ParseFile(h, src) ==
    LET h1 == Alloc(h, "Ident", <<"main">>, <<>>)
        r  == ParseDecls(h1, src.decls)
    IN  Alloc(r.h, "File", <<>>, <<Len(h1)>> \o r.ids)

(***************************************************************************)
(* ast.Inspect.  Walk is the sequence of arguments the callback receives   *)
(* when it returns true at every node: a node, then its children, then     *)
(* nil (ast.Walk ends every node it entered with Visit(nil)).              *)
(***************************************************************************)
RECURSIVE Walk(_, _)
Walk(h, n) ==
    <<n>> \o Flatten([i \in 1..Len(h[n].kids) |-> Walk(h, h[n].kids[i])]) \o <<Nil>>

KindOf(h, n) == IF n = Nil THEN "nil" ELSE h[n].kind

\* the elements of a set of indices in increasing order
Ascending(S) ==
    [k \in 1..Cardinality(S) |-> CHOOSE i \in S : Cardinality({j \in S : j < i}) = k - 1]

Max(S) == CHOOSE x \in S : \A y \in S : y <= x

Min(S) == CHOOSE x \in S : \A y \in S : x <= y

\* the callback's variable `scope` after the first i callbacks of cb:
\* the FuncDecl seen last, Scope{} (fun = nil) when none was seen
ScopeAt(h, cb, i) ==
    LET S == {j \in 1..i : KindOf(h, cb[j]) = "FuncDecl"}
    IN  IF S = {} THEN Nil ELSE cb[Max(S)]

\* the callback's variable `parent` after the first i callbacks of cb, as the
\* list of the Node fields along its Parent links, nearest first; `root` is
\* the Node of the record the variable was initialised with
ParentAt(cb, i, root) == Reverse(SubSeq(cb, 1, i)) \o <<root>>

Handle(scope, node, chain) == [scope |-> scope, Node |-> node, Parent |-> chain]

\* the handles a query hands out at the callbacks whose node is of the kind
NodesOfKind(h, f, kind) ==
    LET cb == Walk(h, f)
        at == Ascending({i \in 1..Len(cb) : KindOf(h, cb[i]) = kind})
    IN  [k \in 1..Len(at) |->
            Handle(ScopeAt(h, cb, at[k]), cb[at[k]], ParentAt(cb, at[k] - 1, Nil))]

FunctionCalls(h, f) == NodesOfKind(h, f, "CallExpr")

IfStatements(h, f) == NodesOfKind(h, f, "IfStmt")

SwitchStatements(h, f) == NodesOfKind(h, f, "SwitchStmt")

Assignments(h, f) ==
    LET cb == Walk(h, f)
        at == Ascending({i \in 1..Len(cb) : KindOf(h, cb[i]) = "BlockStmt"})
        InBlock(i) ==
            LET list == h[cb[i]].kids
                as   == Ascending({j \in 1..Len(list) : KindOf(h, list[j]) = "AssignStmt"})
            IN  [k \in 1..Len(as) |->
                    Handle(ScopeAt(h, cb, i), list[as[k]], ParentAt(cb, i, f))]
    IN  Flatten([k \in 1..Len(at) |-> InBlock(at[k])])

\* the NodeWithParent values the callback of TraverseAst receives
TraverseAst(h, f) ==
    LET cb == Walk(h, f)
    IN  [i \in 1..Len(cb) |-> Handle(Nil, cb[i], ParentAt(cb, i - 1, f))]

\* Functions(): the chain is the one before the callback
Functions(h, f) == NodesOfKind(h, f, "FuncDecl")

\* TypeDeclarations(): as Functions, the chain starting at the file
TypeDeclarations(h, f) ==
    LET cb == Walk(h, f)
        at == Ascending({i \in 1..Len(cb) : KindOf(h, cb[i]) = "TypeSpec"})
    IN  [k \in 1..Len(at) |-> Handle(Nil, cb[at[k]], ParentAt(cb, at[k] - 1, f))]

\* FindAssignments(target): the assignments whose left-hand side is the
\* identifier target
FindAssignments(h, f, target) ==
    LET as == Assignments(h, f)
        at == Ascending({i \in 1..Len(as) :
                    /\ KindOf(h, h[as[i].Node].kids[1]) = "Ident"
                    /\ h[h[as[i].Node].kids[1]].val = target})
    IN  [k \in 1..Len(at) |-> as[at[k]]]

\* CompositeLit.Type and CompositeLit.Elts
LitType(h, lit) == h[lit].kids[1]

Elts(h, lit) == Tail(h[lit].kids)

\* FindMapLiterals(mapType): at every composite literal the callback
\* asserts that its type is a map type; a failed assertion panics.  The
\* chain of a handle starts at the literal itself.
FindMapLiterals(h, f, mapType) ==
    LET cb   == Walk(h, f)
        lits == {i \in 1..Len(cb) : KindOf(h, cb[i]) = "CompositeLit"}
        isMap(i) == KindOf(h, LitType(h, cb[i])) = "MapType"
        match(i) == /\ h[h[LitType(h, cb[i])].kids[1]].val = <<mapType[2]>>
                    /\ h[h[LitType(h, cb[i])].kids[2]].val = <<mapType[3]>>
        at   == Ascending({i \in lits : isMap(i) /\ match(i)})
    IN  IF \E i \in lits : ~isMap(i)
        THEN [panicked |-> TRUE, handles |-> <<>>]
        ELSE [panicked |-> FALSE,
              handles |-> [k \in 1..Len(at) |->
                    Handle(ScopeAt(h, cb, at[k]), cb[at[k]], ParentAt(cb, at[k], f))]]

\* Imports(): the callback returns false at an import declaration, which
\* skips only the specifiers below it; the walk goes on, and every import
\* declaration overwrites `specs`
Imports(h, f) ==
    LET cb == Walk(h, f)
        S  == {i \in 1..Len(cb) : KindOf(h, cb[i]) = "GenDecl" /\ h[cb[i]].val = <<"import">>}
    IN  [specs |-> IF S = {} THEN Nil ELSE cb[Max(S)]]

\* the Node of the first record of the chain whose node is of the kind,
\* Nil when FindUpstreamNode returns nil
FindUpstreamNode(h, chain, kind) ==
    LET S == {j \in 1..Len(chain) : KindOf(h, chain[j]) = kind}
    IN  IF S = {} THEN Nil ELSE chain[Min(S)]

RECURSIVE DeepEqualIgnoringPos(_, _, _)
\* a comparison that skips the token.Pos fields
DeepEqualIgnoringPos(h, a, b) ==
    \/ a = b
    \/ /\ a # Nil /\ b # Nil
       /\ h[a].kind = h[b].kind
       /\ h[a].val = h[b].val
       /\ Len(h[a].kids) = Len(h[b].kids)
       /\ \A i \in 1..Len(h[a].kids) : DeepEqualIgnoringPos(h, h[a].kids[i], h[b].kids[i])

RECURSIVE DeepEqual(_, _, _)
\* reflect.DeepEqual of two node pointers: equal pointers, or equal structs
DeepEqual(h, a, b) ==
    \/ a = b
    \/ /\ a # Nil /\ b # Nil
       /\ h[a].kind = h[b].kind
       /\ h[a].val = h[b].val
       /\ h[a].pos = h[b].pos
       /\ Len(h[a].kids) = Len(h[b].kids)
       /\ \A i \in 1..Len(h[a].kids) : DeepEqual(h, h[a].kids[i], h[b].kids[i])

RECURSIVE SourceCode(_, _)
\* format.Node: the text of a node, as its tokens
SourceCode(h, n) ==
    <<h[n].kind>> \o h[n].val
        \o Flatten([i \in 1..Len(h[n].kids) |-> SourceCode(h, h[n].kids[i])]) \o <<"end">>

(***************************************************************************)
(* Ast: parse a fragment and strip its positions.                          *)
(***************************************************************************)
RECURSIVE Reach(_, _)
Reach(h, n) == {n} \cup UNION {Reach(h, h[n].kids[i]) : i \in 1..Len(h[n].kids)}

zeroPositionInformation(h, n) ==
    [a \in 1..Len(h) |-> IF a \in Reach(h, n) THEN [h[a] EXCEPT !.pos = 0] ELSE h[a]]

\* the fragments the caller inserts: `y := 2`
Fragments == {<<Stmt("assign2", <<>>)>>}

\* the node Ast returns: the body of the wrapping function when it holds
\* more than one statement, else its first statement
AstNode(h, body) == IF Len(h[body].kids) > 1 THEN body ELSE h[body].kids[1]

\* [h |-> heap with the new nodes, node |-> address of the node returned]
AstResult(h, node) == [h |-> zeroPositionInformation(h, node), node |-> node]

AstParsed(h) == AstResult(h, AstNode(h, Len(h)))

Ast(h, frag) == AstParsed(ParseBlock(h, frag))

(***************************************************************************)
(* The mutation primitives.  Each returns [h |-> the heap afterwards,      *)
(* panicked |-> whether the call ended in a run-time panic].               *)
(***************************************************************************)
Ok(h) == [h |-> h, panicked |-> FALSE]

Panic(h) == [h |-> h, panicked |-> TRUE]

SetList(h, block, list) == [h EXCEPT ![block].kids = list]

\* node: [Node, Parent] as the caller builds it; chain is node.Parent
insertAfter(h, anchor, chain, newNode) ==
    LET block == FindUpstreamNode(h, chain, "BlockStmt")
    IN  IF block = Nil THEN Panic(h)
        ELSE LET list == h[block].kids
             IN  Ok(SetList(h, block, Flatten([i \in 1..Len(list) |->
                        IF list[i] = anchor THEN <<list[i], newNode>> ELSE <<list[i]>>])))

insertBefore(h, anchor, chain, newNode) ==
    LET block == FindUpstreamNode(h, chain, "BlockStmt")
    IN  IF block = Nil THEN Panic(h)
        ELSE LET list == h[block].kids
             IN  Ok(SetList(h, block, Flatten([i \in 1..Len(list) |->
                        IF list[i] = anchor THEN <<newNode, list[i]>> ELSE <<list[i]>>])))

remove(h, anchor, chain) ==
    LET block == FindUpstreamNode(h, chain, "BlockStmt")
    IN  IF block = Nil THEN Ok(h)
        ELSE Ok(SetList(h, block, Filter(h[block].kids, Range(h[block].kids) \ {anchor})))

\* FuncDecl.Body
Body(h, fd) == h[fd].kids[Len(h[fd].kids)]

Lhs(h, a) == <<h[a].kids[1]>>

Rhs(h, a) == <<h[a].kids[2]>>

DeepEqualList(h, xs, ys) ==
    /\ Len(xs) = Len(ys)
    /\ \A i \in 1..Len(xs) : DeepEqual(h, xs[i], ys[i])

AssignmentRemove(h, node, chain) ==
    LET fd == FindUpstreamNode(h, chain, "FuncDecl")
    IN  IF fd = Nil THEN Ok(h)
        ELSE LET list == h[Body(h, fd)].kids
             IN  Ok(SetList(h, Body(h, fd),
                    Filter(list, {s \in Range(list) : ~DeepEqual(h, s, node)})))

AssignmentReplace(h, node, chain, newNode) ==
    LET fd == FindUpstreamNode(h, chain, "FuncDecl")
    IN  IF fd = Nil THEN Ok(h)
        ELSE LET list == h[Body(h, fd)].kids
             IN  Ok(SetList(h, Body(h, fd), [i \in 1..Len(list) |->
                    IF /\ h[list[i]].kind = "AssignStmt"
                       /\ DeepEqualList(h, Lhs(h, node), Lhs(h, list[i]))
                       /\ DeepEqualList(h, Rhs(h, node), Rhs(h, list[i]))
                    THEN newNode ELSE list[i]]))

\* IfStmt.Body
IfBody(h, n) == h[n].kids[2]

RemoveCondition(h, node, chain) ==
    LET block == FindUpstreamNode(h, chain, "BlockStmt")
    IN  IF block = Nil THEN Ok(h)
        ELSE Ok(SetList(h, block, h[IfBody(h, node)].kids))

(***************************************************************************)
(* Imports.                                                                *)
(***************************************************************************)
\* Paths(): dereferences imports.specs
ImportPaths(h, imp) == [i \in 1..Len(h[imp.specs].kids) |->
                            Unquote(h[h[h[imp.specs].kids[i]].kids[1]].val)]

ImportsAdd(h, imp, path) ==
    IF imp.specs = Nil THEN Panic(h)
    ELSE IF path \in Range(ImportPaths(h, imp)) THEN Ok(h)
    ELSE LET h1 == Append(h, Node("BasicLit", Quote(path), 0, <<>>))
             h2 == Append(h1, Node("ImportSpec", <<>>, 0, <<Len(h1)>>))
         IN  Ok(SetList(h2, imp.specs, Append(h[imp.specs].kids, Len(h2))))

ImportsRemove(h, imp, path) ==
    IF imp.specs = Nil THEN Panic(h)
    ELSE LET specs == h[imp.specs].kids
         IN  Ok(SetList(h, imp.specs,
                Filter(specs, {s \in Range(specs) : Unquote(h[h[s].kids[1]].val) # path})))

(***************************************************************************)
(* Map and Struct.  A call returns [h, panicked, ret].                     *)
(***************************************************************************)
Return(h, v) == [h |-> h, panicked |-> FALSE, ret |-> v]

Failed(h) == [h |-> h, panicked |-> TRUE, ret |-> Nil]

\* element.(*ast.KeyValueExpr).Key.(*ast.BasicLit) goes through
IsLitKeyed(h, e) == h[e].kind = "KeyValueExpr" /\ h[h[e].kids[1]].kind = "BasicLit"

\* element.(*ast.KeyValueExpr).Key.(*ast.Ident) goes through
IsIdentKeyed(h, e) == h[e].kind = "KeyValueExpr" /\ h[h[e].kids[1]].kind = "Ident"

RECURSIVE MapHas(_, _, _)
\* Map.Has over the elements left to scan
MapHas(h, elts, key) ==
    IF elts = <<>> THEN Return(h, FALSE)
    ELSE IF ~IsLitKeyed(h, Head(elts)) THEN Failed(h)
    ELSE IF Unquote(h[h[Head(elts)].kids[1]].val) = key THEN Return(h, TRUE)
    ELSE MapHas(h, Tail(elts), key)

RECURSIVE MapRenameKey(_, _, _, _)
\* Map.RenameKey over the elements left to scan
MapRenameKey(h, elts, currentKeyValue, newKeyValue) ==
    IF elts = <<>> THEN Return(h, Nil)
    ELSE IF ~IsLitKeyed(h, Head(elts)) THEN Failed(h)
    ELSE IF Unquote(h[h[Head(elts)].kids[1]].val) # currentKeyValue
         THEN MapRenameKey(h, Tail(elts), currentKeyValue, newKeyValue)
    ELSE MapRenameKey([h EXCEPT ![h[Head(elts)].kids[1]].val = Quote(newKeyValue)],
                      Tail(elts), currentKeyValue, newKeyValue)

RECURSIVE StructFieldOrNil(_, _, _)
\* a lookup that returns nil where no element has the key
StructFieldOrNil(h, elts, key) ==
    IF elts = <<>> THEN Return(h, Nil)
    ELSE IF IsIdentKeyed(h, Head(elts)) /\ h[h[Head(elts)].kids[1]].val = key
         THEN Return(h, h[Head(elts)].kids[2])
    ELSE StructFieldOrNil(h, Tail(elts), key)

RECURSIVE StructField(_, _, _)
\* Struct.Field over the elements left to scan; the loop over, it panics
StructField(h, elts, key) ==
    IF elts = <<>> THEN Failed(h)
    ELSE IF ~IsIdentKeyed(h, Head(elts)) THEN Failed(h)
    ELSE IF h[h[Head(elts)].kids[1]].val = key THEN Return(h, h[Head(elts)].kids[2])
    ELSE StructField(h, Tail(elts), key)

\* Assignment.Struct: Rhs[0].(*ast.CompositeLit)
AssignmentStruct(h, node) ==
    IF h[Rhs(h, node)[1]].kind = "CompositeLit" THEN Return(h, Rhs(h, node)[1])
    ELSE Failed(h)

(***************************************************************************)
(* SourceFile.SourceCode(): format.Node on the file.  format.Node works on  *)
(* a copy of a file with grouped imports and applies ast.SortImports to    *)
(* the copy before it prints.  The text is given in the form of `input`.   *)
(***************************************************************************)
\* the import paths in increasing order
PathOrder == <<<<"a">>, <<"b">>>>

\* a printer that writes the paths of a declaration last first
ReverseImports(ps) == Reverse(ps)

\* ast.SortImports on the paths of one import declaration: sorted, each once
SortImports(ps) == Filter(PathOrder, Range(ps))

RECURSIVE TextOfStmt(_, _)
RECURSIVE TextOfStmts(_, _)
TextOfStmts(h, list) ==
    IF list = <<>> THEN <<>>
    ELSE <<TextOfStmt(h, Head(list))>> \o TextOfStmts(h, Tail(list))

TextOfStmt(h, n) ==
    CASE h[n].kind = "AssignStmt" ->
            IF h[h[n].kids[1]].val = <<"x">> THEN Stmt("assign", <<>>) ELSE Stmt("assign2", <<>>)
      [] h[n].kind = "ExprStmt" -> Stmt("call", <<>>)
      [] h[n].kind = "IfStmt" -> Stmt("if", TextOfStmts(h, h[IfBody(h, n)].kids))
      [] h[n].kind = "SwitchStmt" -> Stmt("switch", <<>>)
      [] h[n].kind = "BlockStmt" -> Stmt("block", TextOfStmts(h, h[n].kids))

TextOfDecl(h, d) ==
    CASE h[d].kind = "GenDecl" /\ h[d].val = <<"import">> ->
            Stmt("import", SortImports(ImportPaths(h, [specs |-> d])))
      [] h[d].kind = "GenDecl" /\ h[d].val = <<"var">> -> Stmt("var", <<>>)
      [] h[d].kind = "FuncDecl" -> Stmt("func", TextOfStmts(h, h[Body(h, d)].kids))

\* the bytes SourceCode() returns: the package clause, then the declarations
FileSourceCode(h, f) ==
    [pkg |-> TRUE,
     decls |-> [i \in 1..(Len(h[f].kids) - 1) |-> TextOfDecl(h, h[f].kids[i + 1])]]

(***************************************************************************)
(* The state machine: New, then queries, then mutations through the        *)
(* handles of the last query.  A panic ends the run.                       *)
(***************************************************************************)
NoOp == [type |-> "none", op |-> "none", Node |-> Nil, Parent |-> <<>>, arg |-> Nil,
         panicked |-> FALSE, ret |-> Nil]

Init ==
    /\ input \in Sources
    /\ pc = "start"
    /\ heap = <<>>
    /\ file = Nil
    /\ resultKind = "none"
    /\ result = <<>>
    /\ imports = [specs |-> Nil]
    /\ before = <<>>
    /\ last = NoOp
    /\ nops = 0
    /\ iops = 0
    /\ printed = <<>>
    /\ gen = 0
    /\ ZeroIdle
    /\ ApplyIdle

\* New panics with the parser's error; it has no error result
New ==
    /\ pc = "start"
    /\ IF ParseOK(input)
       THEN /\ heap' = ParseFile(<<>>, input)
            /\ file' = Len(heap')
            /\ pc' = "ready"
            /\ last' = [NoOp EXCEPT !.type = "SourceFile", !.op = "New"]
       ELSE /\ pc' = "panicked"
            /\ last' = [NoOp EXCEPT !.type = "SourceFile", !.op = "New", !.panicked = TRUE]
            /\ UNCHANGED <<heap, file>>
    /\ gen' = gen + 1
    /\ UNCHANGED <<input, resultKind, result, imports, before, nops, iops, printed,
                   zeroVars, applyVars>>

Query(kind, handles) ==
    /\ pc = "ready"
    /\ nops = 0
    /\ iops = 0
    /\ resultKind' = kind
    /\ result' = handles
    /\ UNCHANGED <<input, pc, heap, file, imports, before, last, nops, iops, printed, gen, zeroVars, applyVars>>

QueryFunctionCalls == Query("FunctionCall", FunctionCalls(heap, file))

QueryIfStatements == Query("IfStmt", IfStatements(heap, file))

QuerySwitchStatements == Query("SwitchStmt", SwitchStatements(heap, file))

QueryAssignments == Query("Assignment", Assignments(heap, file))

QueryTraverseAst == Query("TraverseAst", TraverseAst(heap, file))

QueryImports ==
    /\ pc = "ready"
    /\ nops = 0
    /\ iops = 0
    /\ resultKind' = "Imports"
    /\ result' = <<>>
    /\ imports' = Imports(heap, file)
    /\ UNCHANGED <<input, pc, heap, file, before, last, nops, iops, printed, gen, zeroVars, applyVars>>

\* a mutation through handle hd: h0 is the heap when the primitive is
\* entered (the argument already built), r what the primitive returns
Mutation(type, op, hd, arg, h0, r) ==
    /\ heap' = r.h
    /\ before' = h0
    /\ last' = [type |-> type, op |-> op, Node |-> hd.Node, Parent |-> hd.Parent,
                arg |-> arg, panicked |-> r.panicked, ret |-> Nil]
    /\ pc' = IF r.panicked THEN "panicked" ELSE "ready"
    /\ nops' = nops + 1
    /\ UNCHANGED <<input, file, resultKind, result, imports, iops, printed, gen, zeroVars, applyVars>>

CanMutate(type) == pc = "ready" /\ resultKind = type /\ nops < MaxOps

\* FunctionCall: the anchor is call.Parent.Node, the node visited just
\* before the call expression
FunctionCallInsertAfter ==
    /\ CanMutate("FunctionCall")
    /\ \E i \in 1..Len(result), frag \in Fragments :
        LET hd == result[i]
            a  == Ast(heap, frag)
        IN  Mutation("FunctionCall", "InsertAfter", hd, a.node, a.h,
                     insertAfter(a.h, hd.Parent[1], hd.Parent, a.node))

FunctionCallInsertBefore ==
    /\ CanMutate("FunctionCall")
    /\ \E i \in 1..Len(result), frag \in Fragments :
        LET hd == result[i]
            a  == Ast(heap, frag)
        IN  Mutation("FunctionCall", "InsertBefore", hd, a.node, a.h,
                     insertBefore(a.h, hd.Parent[1], hd.Parent, a.node))

FunctionCallRemove ==
    /\ CanMutate("FunctionCall")
    /\ \E i \in 1..Len(result) :
        LET hd == result[i]
        IN  Mutation("FunctionCall", "Remove", hd, Nil, heap,
                     remove(heap, hd.Parent[1], hd.Parent))

\* IfStmt, SwitchStmt and Assignment anchor at their own node
StmtInsertAfter(type) ==
    /\ CanMutate(type)
    /\ \E i \in 1..Len(result), frag \in Fragments :
        LET hd == result[i]
            a  == Ast(heap, frag)
        IN  Mutation(type, "InsertAfter", hd, a.node, a.h,
                     insertAfter(a.h, hd.Node, hd.Parent, a.node))

StmtInsertBefore(type) ==
    /\ CanMutate(type)
    /\ \E i \in 1..Len(result), frag \in Fragments :
        LET hd == result[i]
            a  == Ast(heap, frag)
        IN  Mutation(type, "InsertBefore", hd, a.node, a.h,
                     insertBefore(a.h, hd.Node, hd.Parent, a.node))

StmtRemove(type) ==
    /\ CanMutate(type)
    /\ \E i \in 1..Len(result) :
        LET hd == result[i]
        IN  Mutation(type, "Remove", hd, Nil, heap, remove(heap, hd.Node, hd.Parent))

IfStmtInsertAfter == StmtInsertAfter("IfStmt")

IfStmtInsertBefore == StmtInsertBefore("IfStmt")

IfStmtRemove == StmtRemove("IfStmt")

IfStmtRemoveCondition ==
    /\ CanMutate("IfStmt")
    /\ \E i \in 1..Len(result) :
        LET hd == result[i]
        IN  Mutation("IfStmt", "RemoveCondition", hd, Nil, heap,
                     RemoveCondition(heap, hd.Node, hd.Parent))

SwitchStmtInsertAfter == StmtInsertAfter("SwitchStmt")

SwitchStmtInsertBefore == StmtInsertBefore("SwitchStmt")

SwitchStmtRemove == StmtRemove("SwitchStmt")

AssignmentInsertAfter == StmtInsertAfter("Assignment")

AssignmentInsertBefore == StmtInsertBefore("Assignment")

AssignmentDoRemove ==
    /\ CanMutate("Assignment")
    /\ \E i \in 1..Len(result) :
        LET hd == result[i]
        IN  Mutation("Assignment", "Remove", hd, Nil, heap,
                     AssignmentRemove(heap, hd.Node, hd.Parent))

AssignmentDoReplace ==
    /\ CanMutate("Assignment")
    /\ \E i \in 1..Len(result), frag \in Fragments :
        LET hd == result[i]
            a  == Ast(heap, frag)
        IN  Mutation("Assignment", "Replace", hd, a.node, a.h,
                     AssignmentReplace(a.h, hd.Node, hd.Parent, a.node))

ImportsMutation(op, path, r) ==
    /\ heap' = r.h
    /\ before' = heap
    /\ last' = [type |-> "Imports", op |-> op, Node |-> imports.specs, Parent |-> <<>>,
                arg |-> path, panicked |-> r.panicked, ret |-> Nil]
    /\ pc' = IF r.panicked THEN "panicked" ELSE "ready"
    /\ iops' = iops + 1
    /\ UNCHANGED <<input, file, resultKind, result, imports, nops, printed, gen, zeroVars, applyVars>>

CanMutateImports == pc = "ready" /\ resultKind = "Imports" /\ iops < MaxImportOps

ImportsDoAdd ==
    /\ CanMutateImports
    /\ \E path \in Paths : ImportsMutation("Add", path, ImportsAdd(heap, imports, path))

ImportsDoRemove ==
    /\ CanMutateImports
    /\ \E path \in Paths : ImportsMutation("Remove", path, ImportsRemove(heap, imports, path))

\* the specifiers of an import declaration, sorted by path, each path once
SortedSpecs(h, d) ==
    LET specs == h[d].kids
        ps    == ImportPaths(h, [specs |-> d])
        order == SortImports(ps)
    IN  [k \in 1..Len(order) |-> specs[Min({i \in 1..Len(ps) : ps[i] = order[k]})]]

\* a SourceCode() that sorts the imports of the file itself, not of a copy
SourceCodeSortingInPlace ==
    /\ pc = "ready"
    /\ Len(printed) < MaxPrints
    /\ printed' = Append(printed, [gen |-> gen, nops |-> nops, iops |-> iops,
                                    text |-> FileSourceCode(heap, file)])
    /\ before' = heap
    /\ heap' = [a \in 1..Len(heap) |->
                    IF heap[a].kind = "GenDecl" /\ heap[a].val = <<"import">>
                    THEN [heap[a] EXCEPT !.kids = SortedSpecs(heap, a)] ELSE heap[a]]
    /\ last' = [NoOp EXCEPT !.type = "SourceFile", !.op = "SourceCode"]
    /\ UNCHANGED <<input, pc, file, resultKind, result, imports, nops, iops, gen, zeroVars, applyVars>>

\* SourceFile.SourceCode(): reads the tree, writes into a buffer of its own
SourceFileSourceCode ==
    /\ pc = "ready"
    /\ Len(printed) < MaxPrints
    /\ printed' = Append(printed, [gen |-> gen, nops |-> nops, iops |-> iops,
                                    text |-> FileSourceCode(heap, file)])
    /\ before' = heap
    /\ last' = [NoOp EXCEPT !.type = "SourceFile", !.op = "SourceCode"]
    /\ UNCHANGED <<input, pc, heap, file, resultKind, result, imports, nops, iops, gen, zeroVars, applyVars>>

\* the caller takes the bytes the last SourceCode() call returned for the
\* file as parsed as the text of a further New
Reparse ==
    /\ pc = "ready"
    /\ gen < MaxParses
    /\ nops = 0
    /\ iops = 0
    /\ printed # <<>>
    /\ printed[Len(printed)].gen = gen
    /\ input' = printed[Len(printed)].text
    /\ pc' = "start"
    /\ heap' = <<>>
    /\ file' = Nil
    /\ resultKind' = "none"
    /\ result' = <<>>
    /\ imports' = [specs |-> Nil]
    /\ before' = <<>>
    /\ last' = NoOp
    /\ nops' = 0
    /\ iops' = 0
    /\ UNCHANGED <<printed, gen, zeroVars, applyVars>>

Next ==
    \/ New
    \/ QueryFunctionCalls
    \/ QueryIfStatements
    \/ QuerySwitchStatements
    \/ QueryAssignments
    \/ QueryTraverseAst
    \/ QueryImports
    \/ FunctionCallInsertAfter
    \/ FunctionCallInsertBefore
    \/ FunctionCallRemove
    \/ IfStmtInsertAfter
    \/ IfStmtInsertBefore
    \/ IfStmtRemove
    \/ IfStmtRemoveCondition
    \/ SwitchStmtInsertAfter
    \/ SwitchStmtInsertBefore
    \/ SwitchStmtRemove
    \/ AssignmentInsertAfter
    \/ AssignmentInsertBefore
    \/ AssignmentDoRemove
    \/ AssignmentDoReplace
    \/ ImportsDoAdd
    \/ ImportsDoRemove

Spec == Init /\ [][Next]_vars

(***************************************************************************)
(* Files with a composite literal: the queries, Map and Struct.            *)
(***************************************************************************)
InitMap ==
    /\ input \in MapSources
    /\ pc = "start"
    /\ heap = <<>>
    /\ file = Nil
    /\ resultKind = "none"
    /\ result = <<>>
    /\ imports = [specs |-> Nil]
    /\ before = <<>>
    /\ last = NoOp
    /\ nops = 0
    /\ iops = 0
    /\ printed = <<>>
    /\ gen = 0
    /\ ZeroIdle
    /\ ApplyIdle

QueryFunctions == Query("Function", Functions(heap, file))

QueryTypeDeclarations == Query("TypeDeclaration", TypeDeclarations(heap, file))

\* the identifiers a caller looks for
Targets == {<<"x">>, <<"y">>}

QueryFindAssignments ==
    /\ pc = "ready"
    /\ nops = 0
    /\ \E target \in Targets :
        /\ resultKind' = "FoundAssignment"
        /\ result' = FindAssignments(heap, file, target)
        /\ last' = [NoOp EXCEPT !.type = "SourceFile", !.op = "FindAssignments",
                                 !.arg = target]
    /\ UNCHANGED <<input, pc, heap, file, imports, before, nops, iops, printed, gen, zeroVars, applyVars>>

QueryFindMapLiterals ==
    /\ pc = "ready"
    /\ nops = 0
    /\ \E mapType \in MapTypes :
        LET r == FindMapLiterals(heap, file, mapType)
        IN  /\ resultKind' = "Map"
            /\ result' = r.handles
            /\ last' = [NoOp EXCEPT !.type = "SourceFile", !.op = "FindMapLiterals",
                                     !.arg = mapType, !.panicked = r.panicked]
            /\ pc' = IF r.panicked THEN "panicked" ELSE "ready"
    /\ UNCHANGED <<input, heap, file, imports, before, nops, iops, printed, gen, zeroVars, applyVars>>

\* a call through handle hd that returned r
Called(type, op, hd, arg, r) ==
    /\ heap' = r.h
    /\ before' = heap
    /\ last' = [type |-> type, op |-> op, Node |-> hd.Node, Parent |-> hd.Parent,
                arg |-> arg, panicked |-> r.panicked, ret |-> r.ret]
    /\ pc' = IF r.panicked THEN "panicked" ELSE "ready"
    /\ nops' = nops + 1
    /\ UNCHANGED <<input, file, resultKind, result, imports, iops, printed, gen, zeroVars, applyVars>>

CanCall(type) == pc = "ready" /\ resultKind = type /\ nops < MaxMapOps

MapDoHas ==
    /\ CanCall("Map")
    /\ \E i \in 1..Len(result), key \in Names :
        Called("Map", "Has", result[i], key, MapHas(heap, Elts(heap, result[i].Node), key))

MapDoRenameKey ==
    /\ CanCall("Map")
    /\ \E i \in 1..Len(result), old \in Names, new \in Names :
        Called("Map", "RenameKey", result[i], <<old, new>>,
               MapRenameKey(heap, Elts(heap, result[i].Node), old, new))

\* assignment.Struct().Field(key)
StructDoField ==
    /\ \/ CanCall("Assignment")
       \/ CanCall("FoundAssignment")
    /\ \E i \in 1..Len(result), key \in Names :
        LET st == AssignmentStruct(heap, result[i].Node)
        IN  IF st.panicked
            THEN Called("Assignment", "Struct", result[i], Nil, st)
            ELSE Called("Struct", "Field", [Node |-> st.ret, Parent |-> <<>>], key,
                        StructField(heap, Elts(heap, st.ret), key))

NextMap ==
    \/ New
    \/ QueryFunctionCalls
    \/ QueryIfStatements
    \/ QuerySwitchStatements
    \/ QueryAssignments
    \/ QueryFunctions
    \/ QueryTypeDeclarations
    \/ QueryFindAssignments
    \/ QueryFindMapLiterals
    \/ MapDoHas
    \/ MapDoRenameKey
    \/ StructDoField

SpecMap == InitMap /\ [][NextMap]_vars

\* printing and parsing again, with Imports.Add calls in between
NextPrint ==
    \/ New
    \/ QueryImports
    \/ ImportsDoAdd
    \/ SourceFileSourceCode
    \/ Reparse

SpecPrint == Init /\ [][NextPrint]_vars

(***************************************************************************)
(* The parameter-list swap a caller writes over Function.Params(),         *)
(* Method.Params() and call.Node.Args.  A list is the slice the handle     *)
(* gives: its elements are [addr |-> the element's address, expr |-> the   *)
(* type of the parameter or the argument expression].                      *)
(***************************************************************************)
IdentExpr(name) == [kind |-> "Ident", Name |-> name]

SelectorExpr(x, sel) == [kind |-> "SelectorExpr", X |-> IdentExpr(x), Sel |-> IdentExpr(sel)]

CallExprOf(fun) == [kind |-> "CallExpr", Fun |-> fun]

BasicLitExpr(value) == [kind |-> "BasicLit", Value |-> value]

\* the types of the parameters: int64, context.Context, other.Context
ParamTypes ==
    {IdentExpr("int64"), SelectorExpr("context", "Context"), SelectorExpr("other", "Context")}

\* the arguments of a call: 1, userID, ctx, context, context.Background()
ArgExprs ==
    {BasicLitExpr("1"), IdentExpr("userID"), IdentExpr("ctx"), IdentExpr("context"),
     CallExprOf(SelectorExpr("context", "Background"))}

\* the lists of at most MaxParams elements with expressions from E
ListsOf(E) ==
    UNION {{[i \in 1..k |-> [addr |-> i, expr |-> f[i]]] : f \in [1..k -> E]} :
              k \in 0..MaxParams}

SwapSources ==
    {[site |-> "Function", list |-> l] : l \in ListsOf(ParamTypes)}
    \cup {[site |-> "Method", list |-> l] : l \in ListsOf(ParamTypes)}
    \cup {[site |-> "FunctionCall", list |-> l] : l \in ListsOf(ArgExprs)}

\* the text of a type expression, in tokens
ExprText(e) ==
    IF e.kind = "SelectorExpr" THEN <<e.X.Name, ".", e.Sel.Name>> ELSE <<e.Name>>

HasSuffix(s, suffix) ==
    /\ Len(s) >= Len(suffix)
    /\ SubSeq(s, Len(s) - Len(suffix) + 1, Len(s)) = suffix

\* the test each loop makes on an element before swapping it
IsContext(site, e) ==
    CASE site = "Function" -> HasSuffix(ExprText(e.expr), <<".", "Context">>)
      [] site = "Method" -> ExprText(e.expr) = <<"context", ".", "Context">>
      [] site = "FunctionCall" ->
            \/ /\ e.expr.kind = "CallExpr"
               /\ e.expr.Fun.kind = "SelectorExpr"
               /\ e.expr.Fun.X.Name = "context"
               /\ e.expr.Fun.Sel.Name = "Background"
            \/ /\ e.expr.kind = "Ident"
               /\ e.expr.Name \in {"ctx", "context"}

\* the list with the element at j moved to i and those in between moved up
MoveToFront(params, i, j) ==
    [k \in 1..Len(params) |->
        IF k = i THEN params[j] ELSE IF k > i /\ k <= j THEN params[k - 1] ELSE params[k]]

\* params[i], params[j] = params[j], params[i]
Swap(params, i, j) == [params EXCEPT ![i] = params[j], ![j] = params[i]]

\* for i, param := range params { if <test> { swap with position 0 } },
\* from index i on; param is read from the slice when its turn comes
RECURSIVE SwapContexts(_, _, _)
SwapContexts(site, params, i) ==
    IF i > Len(params) THEN params
    ELSE SwapContexts(site,
                      IF IsContext(site, params[i]) THEN Swap(params, 1, i) ELSE params,
                      i + 1)

InitSwap ==
    /\ input \in SwapSources
    /\ pc = "ready"
    /\ heap = <<>>
    /\ file = Nil
    /\ resultKind = input.site
    /\ result = input.list
    /\ imports = [specs |-> Nil]
    /\ before = <<>>
    /\ last = NoOp
    /\ nops = 0
    /\ iops = 0
    /\ printed = <<>>
    /\ gen = 0
    /\ ZeroIdle
    /\ ApplyIdle

\* the loop over the list of one handle
SwapLoop(site) ==
    /\ pc = "ready"
    /\ resultKind = site
    /\ nops = 0
    /\ result' = SwapContexts(site, result, 1)
    /\ last' = [NoOp EXCEPT !.type = site, !.op = "Swap"]
    /\ nops' = 1
    /\ UNCHANGED <<input, pc, heap, file, resultKind, imports, before, iops, printed, gen, zeroVars, applyVars>>

FunctionParamsSwap == SwapLoop("Function")

CallArgsSwap == SwapLoop("FunctionCall")

MethodParamsSwap == SwapLoop("Method")

NextSwap ==
    \/ FunctionParamsSwap
    \/ CallArgsSwap
    \/ MethodParamsSwap

SpecSwap == InitSwap /\ [][NextSwap]_vars

(***************************************************************************)
(* Ast on the texts a caller may hand it.  A text is [pkg, decls, stmts]:  *)
(* whether it opens with a package clause, its declarations, then its      *)
(* bare statements.  "funcall" is the statement `myfunc()`.                *)
(***************************************************************************)
AstAtoms ==
    {Stmt("assign", <<>>), Stmt("call", <<>>), Stmt("if", <<>>), Stmt("funcall", <<>>)}

AstDecls ==
    {Stmt("func", b) : b \in SeqsUpTo(AstAtoms, MaxFragStmts)}
    \cup {Stmt("var", <<>>), Stmt("import", <<<<"a">>>>)}

AstTexts ==
    {[pkg |-> p, decls |-> d, stmts |-> ss] :
        p \in BOOLEAN, d \in SeqsUpTo(AstDecls, 1), ss \in SeqsUpTo(AstAtoms, MaxFragStmts)}

RECURSIVE WordsOf(_)
\* the pieces the text of a statement or declaration is written with; an
\* identifier is written with one piece or more (`myfunc` with my, func)
WordsOf(s) ==
    CASE s.t = "assign" -> {"x", ":=", "1"}
      [] s.t = "assign2" -> {"y", ":=", "2"}
      [] s.t = "call" -> {"f", "(", ")"}
      [] s.t = "funcall" -> {"my", "func", "(", ")"}
      [] s.t = "if" -> {"if", "c", "{", "}"} \cup UNION {WordsOf(b) : b \in Range(s.body)}
      [] s.t = "switch" -> {"switch", "t", "{", "}"}
      [] s.t = "var" -> {"var", "v", "=", "f", "(", ")"}
      [] s.t = "import" -> {"import", "\""} \cup UNION {Range(q) : q \in Range(s.body)}
      [] s.t = "func" ->
            {"func", "fn", "(", ")", "{", "}"} \cup UNION {WordsOf(b) : b \in Range(s.body)}

TextWords(text) ==
    (IF text.pkg THEN {"package", "main"} ELSE {})
    \cup UNION {WordsOf(x) : x \in Range(text.decls \o text.stmts)}

\* strings.Contains(sourceCode, word)
Contains(text, word) == word \in TextWords(text)

\* func function_name_N() { sourceCode }
WrapFunc(text) ==
    [pkg |-> text.pkg, decls |-> <<Stmt("func", text.decls \o text.stmts)>>, stmts |-> <<>>]

\* package package_name_N sourceCode
WrapPackage(text) == [text EXCEPT !.pkg = TRUE]

\* the text Ast hands to New
Wrapped(text) ==
    IF Contains(text, "package") THEN text
    ELSE WrapPackage(IF Contains(text, "func") THEN text ELSE WrapFunc(text))

\* a function body holds statements and var declarations only
BodyParses(d) == d.t = "func" => \A x \in Range(d.body) : x.t \notin {"func", "import"}

\* parser.ParseFile accepts a package clause followed by declarations
FileParses(text) ==
    /\ text.pkg
    /\ text.stmts = <<>>
    /\ \A d \in Range(text.decls) : BodyParses(d)

AstPanic(h) == [h |-> h, node |-> Nil, panicked |-> TRUE]

\* body.List[0] is out of range in an empty body
AstPick(h, body) ==
    IF h[body].kids = <<>> THEN AstPanic(h)
    ELSE [h |-> AstResult(h, AstNode(h, body)).h, node |-> AstNode(h, body),
          panicked |-> FALSE]

\* sourceFile.file.Decls[0].(*ast.FuncDecl).Body, in the file parsed last
AstBody(h) ==
    IF Len(h[Len(h)].kids) < 2 THEN AstPanic(h)
    ELSE IF h[h[Len(h)].kids[2]].kind # "FuncDecl" THEN AstPanic(h)
    ELSE AstPick(h, h[h[Len(h)].kids[2]].kids[3])

\* Ast(sourceCode): [h |-> the nodes parsed, node |-> the node returned,
\* panicked |-> whether the call ended in a panic]
AstText(text) ==
    IF FileParses(Wrapped(text)) THEN AstBody(ParseFile(<<>>, Wrapped(text)))
    ELSE AstPanic(<<>>)

InitAst ==
    /\ input \in AstTexts
    /\ pc = "start"
    /\ heap = <<>>
    /\ file = Nil
    /\ resultKind = "none"
    /\ result = <<>>
    /\ imports = [specs |-> Nil]
    /\ before = <<>>
    /\ last = NoOp
    /\ nops = 0
    /\ iops = 0
    /\ printed = <<>>
    /\ gen = 0
    /\ ZeroIdle
    /\ ApplyIdle

\* a call of Ast that ended as r
AstReturned(r) ==
    /\ heap' = r.h
    /\ last' = [NoOp EXCEPT !.op = "Ast", !.Node = r.node, !.panicked = r.panicked]
    /\ pc' = IF r.panicked THEN "panicked" ELSE "ready"
    /\ UNCHANGED <<input, file, resultKind, result, imports, before, nops, iops, printed,
                   gen, zeroVars, applyVars>>

AstCall ==
    /\ pc = "start"
    /\ \E r \in {AstText(input)} : AstReturned(r)

NextAst == AstCall

SpecAst == InitAst /\ [][NextAst]_vars

(***************************************************************************)
(* FindAssignments on the assignments of one function.  An assignment is   *)
(* [addr |-> its address, Lhs |-> its left-hand sides]; its right-hand     *)
(* sides are 1s: `a = 1`, `d[0], d[1] = 1, 1`.  A text is its tokens,      *)
(* blanks included.                                                        *)
(***************************************************************************)
IndexExpr(x, index) == [kind |-> "IndexExpr", X |-> IdentExpr(x), Index |-> BasicLitExpr(index)]

\* a, d, d[0], d[1], c.x
LhsExprs ==
    {IdentExpr("a"), IdentExpr("d"), IndexExpr("d", "0"), IndexExpr("d", "1"),
     SelectorExpr("c", "x")}

AssignLists ==
    UNION {{[i \in 1..k |-> [addr |-> i, Lhs |-> f[i]]] :
                f \in [1..k -> SeqsUpTo(LhsExprs, MaxLhs) \ {<<>>}]} : k \in 0..MaxAssigns}

\* the targets a caller looks for: a, d, d[0], c.x, `a = 1` and `a=1`
FindTargets ==
    {<<"a">>, <<"d">>, <<"d", "[", "0", "]">>, <<"c", ".", "x">>,
     <<"a", " ", "=", " ", "1">>, <<"a", "=", "1">>}

\* SourceCode of a left-hand side
LhsText(e) ==
    IF e.kind = "IndexExpr" THEN ExprText(e.X) \o <<"[", e.Index.Value, "]">>
    ELSE ExprText(e)

RECURSIVE JoinLhs(_)
\* the left-hand sides as the printer writes them: `l1, l2`
JoinLhs(es) ==
    IF Len(es) = 1 THEN LhsText(es[1])
    ELSE LhsText(es[1]) \o <<",", " ">> \o JoinLhs(Tail(es))

RECURSIVE JoinOnes(_)
JoinOnes(k) == IF k = 1 THEN <<"1">> ELSE <<"1", ",", " ">> \o JoinOnes(k - 1)

\* SourceCode(assignment.Node)
AssignText(a) == JoinLhs(a.Lhs) \o <<" ", "=", " ">> \o JoinOnes(Len(a.Lhs))

RECURSIVE NormalizeString(_)
\* the text without its blanks, newlines and tabs
NormalizeString(t) ==
    IF t = <<>> THEN <<>>
    ELSE IF Head(t) \in {" ", "\n", "\t"} THEN NormalizeString(Tail(t))
    ELSE <<Head(t)>> \o NormalizeString(Tail(t))

\* the test the loop over Lhs makes on one expression
LhsMatches(e, target) ==
    CASE e.kind = "SelectorExpr" -> NormalizeString(LhsText(e)) = NormalizeString(target)
      [] e.kind = "Ident" -> <<e.Name>> = target
      [] e.kind = "IndexExpr" ->
            \/ NormalizeString(ExprText(e.X)) = NormalizeString(target)
            \/ NormalizeString(LhsText(e)) = NormalizeString(target)

RECURSIVE AppendPerLhs(_, _, _)
\* for _, expr := range assignment.Node.Lhs { ... append ... }
AppendPerLhs(a, es, target) ==
    IF es = <<>> THEN <<>>
    ELSE (IF LhsMatches(Head(es), target) THEN <<a>> ELSE <<>>)
            \o AppendPerLhs(a, Tail(es), target)

RECURSIVE FindAmong(_, _)
\* the loop of FindAssignments over the assignments of one scope
FindAmong(as, target) ==
    IF as = <<>> THEN <<>>
    ELSE (IF NormalizeString(AssignText(Head(as))) = NormalizeString(target)
          THEN <<Head(as)>>
          ELSE AppendPerLhs(Head(as), Head(as).Lhs, target))
            \o FindAmong(Tail(as), target)

InitFind ==
    /\ input \in AssignLists
    /\ pc = "ready"
    /\ heap = <<>>
    /\ file = Nil
    /\ resultKind = "none"
    /\ result = <<>>
    /\ imports = [specs |-> Nil]
    /\ before = <<>>
    /\ last = NoOp
    /\ nops = 0
    /\ iops = 0
    /\ printed = <<>>
    /\ gen = 0
    /\ ZeroIdle
    /\ ApplyIdle

FindAssignmentsCall ==
    /\ pc = "ready"
    /\ resultKind = "none"
    /\ \E target \in FindTargets :
        /\ result' = FindAmong(input, target)
        /\ last' = [NoOp EXCEPT !.type = "SourceFile", !.op = "FindAssignments",
                                 !.arg = target]
    /\ resultKind' = "FoundAssignment"
    /\ UNCHANGED <<input, pc, heap, file, imports, before, nops, iops, printed, gen, zeroVars, applyVars>>

NextFind == FindAssignmentsCall

SpecFind == InitFind /\ [][NextFind]_vars

(***************************************************************************)
(* zeroPositionInformation, call by call.  Here the heap holds the structs *)
(* of the node Ast returns as reflection sees them: [type, fields], a      *)
(* field being [k, v]: a token.Pos with its value, another scalar (v = 0   *)
(* when it is the zero value), a pointer or an interface holding a         *)
(* pointer (v the address, Nil for nil), or a slice of interfaces (v the   *)
(* addresses).  The parser resolves the identifier of `y := 2`: its Obj    *)
(* points to an Object whose Decl is the assignment itself.                *)
(***************************************************************************)
Fld(k, v) == [k |-> k, v |-> v]

Struct(type, fields) == [type |-> type, fields |-> fields]

\* `y := 2`: AssignStmt{Lhs, TokPos, Tok, Rhs}, Ident{NamePos, Name, Obj},
\* Object{Kind, Name, Decl, Data, Type}, BasicLit{ValuePos, Kind, Value}
ValueOfAssign ==
    <<Struct("AssignStmt", <<Fld("Slice", <<2>>), Fld("Pos", 33), Fld("Other", 1),
                             Fld("Slice", <<4>>)>>),
      Struct("Ident", <<Fld("Pos", 31), Fld("Other", 1), Fld("Ptr", 3)>>),
      Struct("Object", <<Fld("Other", 1), Fld("Other", 1), Fld("Iface", 1),
                         Fld("Iface", Nil), Fld("Iface", Nil)>>),
      Struct("BasicLit", <<Fld("Pos", 36), Fld("Other", 1), Fld("Other", 1)>>)>>

\* `f()`: ExprStmt{X}, CallExpr{Fun, Lparen, Args, Ellipsis, Rparen},
\* Ident{NamePos, Name, Obj} with no object
ValueOfCall ==
    <<Struct("ExprStmt", <<Fld("Iface", 2)>>),
      Struct("CallExpr", <<Fld("Iface", 3), Fld("Pos", 32), Fld("Slice", <<>>),
                           Fld("Pos", 0), Fld("Pos", 33)>>),
      Struct("Ident", <<Fld("Pos", 31), Fld("Other", 1), Fld("Ptr", Nil)>>)>>

\* `f(); f()`: BlockStmt{Lbrace, List, Rbrace} of two calls
ValueOfBlock ==
    <<Struct("BlockStmt", <<Fld("Pos", 29), Fld("Slice", <<2, 5>>), Fld("Pos", 42)>>),
      Struct("ExprStmt", <<Fld("Iface", 3)>>),
      Struct("CallExpr", <<Fld("Iface", 4), Fld("Pos", 32), Fld("Slice", <<>>),
                           Fld("Pos", 0), Fld("Pos", 33)>>),
      Struct("Ident", <<Fld("Pos", 31), Fld("Other", 1), Fld("Ptr", Nil)>>),
      Struct("ExprStmt", <<Fld("Iface", 6)>>),
      Struct("CallExpr", <<Fld("Iface", 7), Fld("Pos", 37), Fld("Slice", <<>>),
                           Fld("Pos", 0), Fld("Pos", 38)>>),
      Struct("Ident", <<Fld("Pos", 36), Fld("Other", 1), Fld("Ptr", Nil)>>)>>

\* what Ast parses; the node it returns is the struct at address 1
ZeroFragments == {ValueOfAssign, ValueOfCall, ValueOfBlock}

\* a reflect.Value on the stack: the struct at a, a pointer to it, an
\* interface holding that pointer, or field i of the struct at a
Val(k, a, i) == [k |-> k, a |-> a, i |-> i]

\* !value.IsValid() || value.IsZero()
IsZero(h, e) ==
    CASE e.k = "Struct" -> FALSE
      [] e.k \in {"Ptr", "Iface"} -> e.a = Nil
      [] e.k = "Field" ->
            IF h[e.a].fields[e.i].k = "Slice" THEN h[e.a].fields[e.i].v = <<>>
            ELSE h[e.a].fields[e.i].v = 0

\* the calls a call makes: on value.Elem(), on each field, on each element
Callees(h, e) ==
    CASE e.k = "Struct" -> [i \in 1..Len(h[e.a].fields) |-> Val("Field", e.a, i)]
      [] e.k = "Ptr" -> <<Val("Struct", e.a, 0)>>
      [] e.k = "Iface" -> <<Val("Ptr", e.a, 0)>>
      [] e.k = "Field" ->
            CASE h[e.a].fields[e.i].k = "Ptr" -> <<Val("Struct", h[e.a].fields[e.i].v, 0)>>
              [] h[e.a].fields[e.i].k = "Iface" -> <<Val("Ptr", h[e.a].fields[e.i].v, 0)>>
              [] h[e.a].fields[e.i].k = "Slice" ->
                    [j \in 1..Len(h[e.a].fields[e.i].v) |->
                        Val("Iface", h[e.a].fields[e.i].v[j], 0)]
              [] OTHER -> <<>>

\* value.Set(reflect.Zero(value.Type())) on a value of type Pos
SetZero(h, e) ==
    IF e.k = "Field" /\ h[e.a].fields[e.i].k = "Pos"
    THEN [h EXCEPT ![e.a].fields[e.i].v = 0]
    ELSE h

InitZero ==
    /\ input = ZeroFragments
    /\ pc = "ready"
    /\ heap = <<>>
    /\ file = Nil
    /\ resultKind = "none"
    /\ result = <<>>
    /\ imports = [specs |-> Nil]
    /\ before = <<>>
    /\ last = NoOp
    /\ nops = 0
    /\ iops = 0
    /\ printed = <<>>
    /\ gen = 0
    /\ ZeroIdle
    /\ ApplyIdle

\* Ast up to its call of zeroPositionInformation(reflect.ValueOf(node))
AstParse ==
    /\ pc = "ready"
    /\ nops < MaxAstCalls
    /\ \E frag \in input :
        /\ heap' = frag
        /\ last' = [NoOp EXCEPT !.op = "Ast", !.Node = 1]
    /\ stack' = <<Val("Ptr", 1, 0)>>
    /\ pc' = "zeroing"
    /\ nops' = nops + 1
    /\ UNCHANGED <<input, file, resultKind, result, imports, before, iops, printed, gen,
                   zeroX, applyVars>>

\* one call of zeroPositionInformation, up to the calls it makes
ZeroCall ==
    /\ pc = "zeroing"
    /\ stack # <<>>
    /\ IF IsZero(heap, Head(stack)) \/ zeroX > ZeroLimit
       THEN /\ stack' = Tail(stack)
            /\ UNCHANGED <<heap, zeroX>>
       ELSE /\ zeroX' = zeroX + 1
            /\ heap' = SetZero(heap, Head(stack))
            /\ stack' = Callees(heap, Head(stack)) \o Tail(stack)
    /\ UNCHANGED <<input, pc, file, resultKind, result, imports, before, last, nops, iops,
                   printed, gen, applyVars>>

\* Ast returns the node
AstReturn ==
    /\ pc = "zeroing"
    /\ stack = <<>>
    /\ pc' = "ready"
    /\ UNCHANGED <<input, heap, file, resultKind, result, imports, before, last, nops, iops,
                   printed, gen, zeroVars, applyVars>>

NextZero ==
    \/ AstParse
    \/ ZeroCall
    \/ AstReturn

SpecZero == InitZero /\ [][NextZero]_vars

(***************************************************************************)
(* applyCodemodsToRemoteRepositories: one goroutine per repository, a      *)
(* weighted semaphore, a mutex around the result and a wait group.  The    *)
(* working directory is the process's; it is counted in tempFolder         *)
(* components below the directory the process started in, tempFolder       *)
(* being the relative path "./codemod_tmp".  A clone is [at, url,          *)
(* touched]: it lies at tempFolder^at/url, and touched holds the           *)
(* repositories whose worker rewrote its files.                            *)
(***************************************************************************)
Goroutine == [pc |-> "acquire", originalDir |-> 0, dir |-> 0, err |-> FALSE, url |-> FALSE]

Clone(at, url) == [at |-> at, url |-> url, touched |-> {}]

\* os.RemoveAll(repoTempFolder) and git.PlainClone(repoTempFolder), both
\* relative to the working directory
CloneInto(d, dir, url) ==
    {c \in d : ~(c.at = dir + 1 /\ c.url = url)} \cup {Clone(dir + 1, url)}

\* os.Chdir(tempFolder) succeeds when the folder exists below the working
\* directory
TempFolderExists(d, dir) == \E c \in d : c.at >= dir + 1

\* filepath.Walk("./", ...): every file below the working directory is
\* opened, transformed and written back
WalkFrom(d, dir, url) ==
    {IF c.at >= dir THEN [c EXCEPT !.touched = @ \cup {url}] ELSE c : c \in d}

\* sem.Acquire(ctx, 1) returns when the weight allows one more
CanAcquireAlways(n) == TRUE

CanAcquire(n) == n + 1 <= SemWeight

\* the list of the result a repository is appended to
ListOf(w) ==
    IF w.err THEN "WithErrors" ELSE IF w.url THEN "Changed" ELSE "NotChanged"

\* the result after the goroutine's append
AppendUnlessNotChanged(res, w, repository) ==
    IF ListOf(w) = "NotChanged" THEN res
    ELSE [res EXCEPT ![ListOf(w)] = Append(@, repository)]

AppendTo(res, w, repository) ==
    [res EXCEPT ![ListOf(w)] = Append(@, repository)]

At(i, at) ==
    /\ mainPc = "waiting"
    /\ i \in DOMAIN worker
    /\ worker[i].pc = at

AtAfterStart(i, at) ==
    /\ mainPc \in {"waiting", "returned"}
    /\ i \in DOMAIN worker
    /\ worker[i].pc = at

InitRemote ==
    /\ input \in [repositories : {[i \in 1..n |-> i] : n \in 1..MaxRepos}, panics : BOOLEAN]
    /\ pc = "ready"
    /\ heap = <<>>
    /\ file = Nil
    /\ resultKind = "none"
    /\ result = <<>>
    /\ imports = [specs |-> Nil]
    /\ before = <<>>
    /\ last = NoOp
    /\ nops = 0
    /\ iops = 0
    /\ printed = <<>>
    /\ gen = 0
    /\ ZeroIdle
    /\ ApplyIdle

codemodVars ==
    <<input, pc, heap, file, resultKind, result, imports, before, last, nops, iops,
      printed, gen, zeroVars>>

\* waitGroup.Add(len(repositories)) and the go statements
Start ==
    /\ mainPc = "idle"
    /\ waitGroup' = Len(input.repositories)
    /\ worker' = [i \in 1..Len(input.repositories) |-> Goroutine]
    /\ mainPc' = "waiting"
    /\ UNCHANGED <<codemodVars, sem, resultLock, applyResult, cwd, disk>>

Acquire(i) ==
    /\ At(i, "acquire")
    /\ CanAcquire(sem)
    /\ sem' = sem + 1
    /\ worker' = [worker EXCEPT ![i].pc = "clone"]
    /\ UNCHANGED <<codemodVars, mainPc, waitGroup, resultLock, applyResult, cwd, disk>>

\* RemoveAll, Clone, DefaultBranch and the two Checkouts
CloneRepository(i) ==
    /\ At(i, "clone")
    /\ \/ /\ disk' = CloneInto(disk, cwd, input.repositories[i])
          /\ worker' = [worker EXCEPT ![i].pc = "getwd"]
       \/ /\ worker' = [worker EXCEPT ![i].pc = "lock", ![i].err = TRUE]
          /\ UNCHANGED disk
    /\ UNCHANGED <<codemodVars, mainPc, sem, waitGroup, resultLock, applyResult, cwd>>

Getwd(i) ==
    /\ At(i, "getwd")
    /\ worker' = [worker EXCEPT ![i].pc = "chdir", ![i].originalDir = cwd]
    /\ UNCHANGED <<codemodVars, mainPc, sem, waitGroup, resultLock, applyResult, cwd, disk>>

Chdir(i) ==
    /\ At(i, "chdir")
    /\ IF TempFolderExists(disk, cwd)
       THEN /\ cwd' = cwd + 1
            /\ worker' = [worker EXCEPT ![i].pc = "transform", ![i].dir = cwd + 1]
       ELSE /\ worker' = [worker EXCEPT ![i].pc = "lock", ![i].err = TRUE]
            /\ UNCHANGED cwd
    /\ UNCHANGED <<codemodVars, mainPc, sem, waitGroup, resultLock, applyResult, disk>>

\* a project transform panics in the goroutine: the process ends
ProjectPanic(i) ==
    /\ At(i, "transform")
    /\ input.panics
    /\ mainPc' = "crashed"
    /\ UNCHANGED <<codemodVars, worker, sem, waitGroup, resultLock, applyResult, cwd, disk>>

\* the project transforms return, then applyCodemodsToDirectory(tempFolder)
\* rewrites the files or fails on the first one
Transform(i) ==
    /\ At(i, "transform")
    /\ ~input.panics
    /\ \/ /\ disk' = WalkFrom(disk, cwd, input.repositories[i])
          /\ worker' = [worker EXCEPT ![i].pc = "chdirBack"]
       \/ /\ worker' = [worker EXCEPT ![i].pc = "lock", ![i].err = TRUE]
          /\ UNCHANGED disk
    /\ UNCHANGED <<codemodVars, mainPc, sem, waitGroup, resultLock, applyResult, cwd>>

ChdirBack(i) ==
    /\ At(i, "chdirBack")
    /\ cwd' = worker[i].originalDir
    /\ worker' = [worker EXCEPT ![i].pc = "push"]
    /\ UNCHANGED <<codemodVars, mainPc, sem, waitGroup, resultLock, applyResult, disk>>

\* Add, FilesAffected, Commit, Push and PullRequest: an error, no file
\* affected, or the pull request's URL
Push(i) ==
    /\ At(i, "push")
    /\ \E out \in {"err", "none", "url"} :
        worker' = [worker EXCEPT ![i].pc = "lock", ![i].err = (out = "err"),
                                 ![i].url = (out = "url")]
    /\ UNCHANGED <<codemodVars, mainPc, sem, waitGroup, resultLock, applyResult, cwd, disk>>

Lock(i) ==
    /\ At(i, "lock")
    /\ resultLock = Nil
    /\ resultLock' = i
    /\ worker' = [worker EXCEPT ![i].pc = "append"]
    /\ UNCHANGED <<codemodVars, mainPc, sem, waitGroup, applyResult, cwd, disk>>

AppendResult(i) ==
    /\ At(i, "append")
    /\ applyResult' = AppendTo(applyResult, worker[i], input.repositories[i])
    /\ worker' = [worker EXCEPT ![i].pc = "done"]
    /\ UNCHANGED <<codemodVars, mainPc, sem, waitGroup, resultLock, cwd, disk>>

Done(i) ==
    /\ At(i, "done")
    /\ waitGroup' = waitGroup - 1
    /\ worker' = [worker EXCEPT ![i].pc = "unlock"]
    /\ UNCHANGED <<codemodVars, mainPc, sem, resultLock, applyResult, cwd, disk>>

\* the deferred calls: resultLock.Unlock(), then sem.Release(1)
Unlock(i) ==
    /\ AtAfterStart(i, "unlock")
    /\ resultLock' = Nil
    /\ worker' = [worker EXCEPT ![i].pc = "release"]
    /\ UNCHANGED <<codemodVars, mainPc, sem, waitGroup, applyResult, cwd, disk>>

Release(i) ==
    /\ AtAfterStart(i, "release")
    /\ sem' = sem - 1
    /\ worker' = [worker EXCEPT ![i].pc = "exited"]
    /\ UNCHANGED <<codemodVars, mainPc, waitGroup, resultLock, applyResult, cwd, disk>>

\* waitGroup.Wait() returns and the result is returned
WaitReturn ==
    /\ mainPc = "waiting"
    /\ waitGroup = 0
    /\ mainPc' = "returned"
    /\ UNCHANGED <<codemodVars, worker, sem, waitGroup, resultLock, applyResult, cwd, disk>>

WorkerStep(i) ==
    \/ Acquire(i)
    \/ CloneRepository(i)
    \/ Getwd(i)
    \/ Chdir(i)
    \/ ProjectPanic(i)
    \/ Transform(i)
    \/ ChdirBack(i)
    \/ Push(i)
    \/ Lock(i)
    \/ AppendResult(i)
    \/ Done(i)
    \/ Unlock(i)
    \/ Release(i)

NextRemote ==
    \/ Start
    \/ \E i \in 1..MaxRepos : WorkerStep(i)
    \/ WaitReturn

SpecRemote == InitRemote /\ [][NextRemote]_vars

\* the scheduler runs every goroutine that can take a step, and the main
\* goroutine once the wait group's counter is zero
FairRemote ==
    /\ SpecRemote
    /\ WF_vars(WaitReturn)
    /\ \A i \in 1..MaxRepos : WF_vars(WorkerStep(i))

(***************************************************************************)
(* The worker pool with more repositories than the semaphore's weight.     *)
(* Every repository is the same one and no file of it is affected, and a   *)
(* goroutine that holds the semaphore runs to its end in one step.         *)
(***************************************************************************)
InitPool ==
    /\ input = [repositories |-> [i \in 1..MaxPoolRepos |-> 1], panics |-> FALSE]
    /\ pc = "ready"
    /\ heap = <<>>
    /\ file = Nil
    /\ resultKind = "none"
    /\ result = <<>>
    /\ imports = [specs |-> Nil]
    /\ before = <<>>
    /\ last = NoOp
    /\ nops = 0
    /\ iops = 0
    /\ printed = <<>>
    /\ gen = 0
    /\ ZeroIdle
    /\ ApplyIdle

\* the clone, the walk from tempFolder and back, no file affected, the
\* append to NotChanged, Done, Unlock and Release
RunToExit(i) ==
    /\ At(i, "clone")
    /\ resultLock = Nil
    /\ disk' = WalkFrom(CloneInto(disk, cwd, input.repositories[i]), cwd + 1,
                        input.repositories[i])
    /\ applyResult' = AppendTo(applyResult, worker[i], input.repositories[i])
    /\ waitGroup' = waitGroup - 1
    /\ sem' = sem - 1
    /\ worker' = [worker EXCEPT ![i].pc = "exited"]
    /\ UNCHANGED <<codemodVars, mainPc, resultLock, cwd>>

NextPool ==
    \/ Start
    \/ \E i \in 1..MaxPoolRepos : Acquire(i)
    \/ \E i \in 1..MaxPoolRepos : RunToExit(i)
    \/ WaitReturn

SpecPool == InitPool /\ [][NextPool]_vars

(***************************************************************************)
(* Apply in local mode: apply, applyCodemodsLocally and                    *)
(* applyCodemodsToDirectory.  An error value is [kind, text]; a transform  *)
(* returns or panics with an error, with a string or with nil.  The go     *)
(* directive of the module is 1.16: recover() returns nil for panic(nil).  *)
(***************************************************************************)
NoError == [kind |-> "nil", text |-> <<>>]

ErrorOf(text) == [kind |-> "error", text |-> text]

\* what a transform does: it returns, or it panics with this value
Completes == [kind |-> "none", text |-> <<>>]

PanicValues ==
    {ErrorOf(<<"oops">>), [kind |-> "string", text |-> <<"a">>], NoError}

TransformOutcomes == {Completes} \cup PanicValues

\* a Go file that parses, a Go file that does not, another file, and a file
\* below a vendor folder
FileKinds == {"go", "unparsable", "text", "vendor"}

LocalInputs ==
    [files : UNION {[1..n -> FileKinds] : n \in 0..MaxFiles},
     codemods : UNION {[1..n -> TransformOutcomes] : n \in 0..MaxCodemods},
     exists : BOOLEAN]

\* the walk's progress: the files written back, the error the callback
\* returned and the value of the panic that ended it
Walked(written, err, raised) == [written |-> written, err |-> err, raised |-> raised]

\* for _, mod := range codemods { mod.transform(code); ... }
RECURSIVE RunCodemods(_, _)
RunCodemods(codemods, k) ==
    IF k > Len(codemods) THEN Completes
    ELSE IF codemods[k] # Completes THEN codemods[k]
    ELSE RunCodemods(codemods, k + 1)

\* filepath.Walk("./", ...) from file k on
RECURSIVE WalkFiles(_, _, _, _)
WalkFiles(files, codemods, k, written) ==
    IF k > Len(files) THEN Walked(written, NoError, Completes)
    ELSE CASE files[k] = "vendor" -> WalkFiles(files, codemods, k + 1, written)
           [] files[k] = "text" -> WalkFiles(files, codemods, k + 1, written \cup {k})
           [] files[k] = "unparsable" -> Walked(written, ErrorOf(<<"parse">>), Completes)
           [] files[k] = "go" ->
                IF RunCodemods(codemods, 1) = Completes
                THEN WalkFiles(files, codemods, k + 1, written \cup {k})
                ELSE Walked(written, NoError, RunCodemods(codemods, 1))

\* the deferred function: recover() and the error it stores in err
RecoveredAlways(raised, err) ==
    IF raised = Completes THEN err
    ELSE IF raised.kind = "error" THEN raised
    ELSE ErrorOf(<<"unexpected panic => ">> \o raised.text)

Recovered(raised, err) ==
    IF raised = Completes \/ raised = NoError THEN err
    ELSE IF raised.kind = "error" THEN raised
    ELSE ErrorOf(<<"unexpected panic => ">> \o raised.text)

\* the function returns after its deferred function ran
Deferred(w) == [w EXCEPT !.err = Recovered(w.raised, w.err)]

\* applyCodemodsToDirectory with no replacements: what the walk did and err
applyCodemodsToDirectory(files, codemods) ==
    IF codemods = <<>> THEN Walked({}, NoError, Completes)
    ELSE Deferred(WalkFiles(files, codemods, 1, {}))

InitLocal ==
    /\ input \in LocalInputs
    /\ pc = "ready"
    /\ heap = <<>>
    /\ file = Nil
    /\ resultKind = "none"
    /\ result = [local |-> NoError, apply |-> NoError]
    /\ imports = [specs |-> Nil]
    /\ before = <<>>
    /\ last = NoOp
    /\ nops = 0
    /\ iops = 0
    /\ printed = <<>>
    /\ gen = 0
    /\ ZeroIdle
    /\ ApplyIdle

localVars ==
    <<input, heap, file, resultKind, imports, before, nops, iops, printed, gen, zeroVars,
      worker, mainPc, sem, waitGroup, resultLock, applyResult>>

\* apply in local mode calls applyCodemodsLocally: os.Getwd and
\* os.Chdir(LocalDirectory)
LocalChdir ==
    /\ pc = "ready"
    /\ IF input.exists
       THEN /\ cwd' = 1
            /\ pc' = "inDirectory"
            /\ UNCHANGED result
       ELSE /\ result' = [result EXCEPT !.local = ErrorOf(<<"chdir">>)]
            /\ pc' = "locallyReturned"
            /\ UNCHANGED cwd
    /\ UNCHANGED <<localVars, last, disk>>

\* the rest of applyCodemodsLocally: applyCodemodsToDirectory, then
\* os.Chdir(originalDir) when it returned nil
LocalDirectoryDone(r) ==
    /\ last' = [NoOp EXCEPT !.op = "applyCodemodsToDirectory", !.arg = r.raised,
                            !.ret = r.err]
    /\ disk' = r.written
    /\ result' = [result EXCEPT !.local = r.err]
    /\ cwd' = IF r.err = NoError THEN 0 ELSE cwd
    /\ pc' = "locallyReturned"
    /\ UNCHANGED localVars

LocalDirectory ==
    /\ pc = "inDirectory"
    /\ \E r \in {applyCodemodsToDirectory(input.files, input.codemods)} :
        LocalDirectoryDone(r)

\* apply drops what applyCodemodsLocally returned and returns nil, and so
\* does Apply
ApplyReturn ==
    /\ pc = "locallyReturned"
    /\ result' = [result EXCEPT !.apply = NoError]
    /\ pc' = "applyReturned"
    /\ UNCHANGED <<localVars, last, cwd, disk>>

NextLocal ==
    \/ LocalChdir
    \/ LocalDirectory
    \/ ApplyReturn

SpecLocal == InitLocal /\ [][NextLocal]_vars

(***************************************************************************)
(* FindMapLiteral on files of one or two functions.  FindMapLiterals       *)
(* returns a Go map from scope to literals, and FindMapLiteral returns     *)
(* from the first iteration of a range over it: the language leaves the    *)
(* iteration order of a map unspecified, so the scope is any of the keys.  *)
(***************************************************************************)
\* the statement of a function: the assignment of a literal, or `x := 1`
LitStmts ==
    {Stmt("lit", l) : l \in {m \in Literals : Len(m.elts) < MaxElts}}
        \cup {Stmt("assign", <<>>)}

LitSources ==
    {[pkg |-> TRUE, decls |-> [i \in 1..Len(sts) |-> Stmt("func", <<sts[i]>>)]] :
        sts \in (LitStmts \X LitStmts) \cup {<<st>> : st \in LitStmts}}

\* what FindMapLiteral returns
Found(scope, node) == [scope |-> scope, Node |-> node]

\* literals[0] of the scope
FirstOf(handles, scope) ==
    handles[Min({k \in 1..Len(handles) : handles[k].scope = scope})].Node

\* the values a call can return
FindMapLiteral(handles) ==
    IF handles = <<>> THEN {Found(Nil, Nil)}
    ELSE {Found(handles[k].scope, FirstOf(handles, handles[k].scope)) :
            k \in 1..Len(handles)}

InitLit ==
    /\ input \in LitSources
    /\ pc = "start"
    /\ heap = <<>>
    /\ file = Nil
    /\ resultKind = "none"
    /\ result = <<>>
    /\ imports = [specs |-> Nil]
    /\ before = <<>>
    /\ last = NoOp
    /\ nops = 0
    /\ iops = 0
    /\ printed = <<>>
    /\ gen = 0
    /\ ZeroIdle
    /\ ApplyIdle

\* a call that returned r, or panicked inside FindMapLiterals; result keeps
\* what the calls returned
FindMapLiteralDone(mapType, lits) ==
    /\ last' = [NoOp EXCEPT !.type = "SourceFile", !.op = "FindMapLiteral",
                            !.arg = mapType, !.panicked = lits.panicked]
    /\ pc' = IF lits.panicked THEN "panicked" ELSE "ready"
    /\ IF lits.panicked THEN UNCHANGED result
       ELSE \E r \in FindMapLiteral(lits.handles) :
                result' = Append(result, [arg |-> mapType, ret |-> r])
    /\ resultKind' = "MapLiteral"
    /\ nops' = nops + 1
    /\ UNCHANGED <<input, heap, file, imports, before, iops, printed, gen, zeroVars,
                   applyVars>>

FindMapLiteralCall ==
    /\ pc = "ready"
    /\ nops < MaxLitCalls
    /\ \E mapType \in MapTypes :
        \E lits \in {FindMapLiterals(heap, file, mapType)} :
            FindMapLiteralDone(mapType, lits)

NextLit ==
    \/ New
    \/ FindMapLiteralCall

SpecLit == InitLit /\ [][NextLit]_vars

(***************************************************************************)
(* Properties.  The tree as the grammar sees it, independent of the walk   *)
(* the queries make.                                                       *)
(***************************************************************************)
StmtTypes == {"FunctionCall", "IfStmt", "SwitchStmt", "Assignment"}

\* the statement a mutation is anchored at
Anchor == IF last.type = "FunctionCall" THEN last.Parent[1] ELSE last.Node

\* the nodes of the file's tree
InTree(h) == Reach(h, file)

\* the file's tree: its nodes with their fields
Tree(h) == [n \in InTree(h) |-> h[n]]

\* the function declaration a node lies in, Nil at top level
EnclosingFunc(h, n) ==
    LET S == {d \in Range(h[file].kids) : h[d].kind = "FuncDecl" /\ n \in Reach(h, d)}
    IN  IF S = {} THEN Nil ELSE CHOOSE d \in S : TRUE

\* the number of proper ancestors of a node of the tree
Depth(h, n) == Cardinality({a \in InTree(h) : a # n /\ n \in Reach(h, a)})

\* the blocks of the tree whose statement list holds the statement
BlocksContaining(h, a) ==
    {b \in InTree(h) : h[b].kind = "BlockStmt" /\ a \in Range(h[b].kids)}

\* list with n put right after (right before) its element a
Inserted(list, a, n, op) ==
    LET i == CHOOSE i \in 1..Len(list) : list[i] = a
    IN  IF op = "InsertAfter"
        THEN SubSeq(list, 1, i) \o <<n>> \o SubSeq(list, i + 1, Len(list))
        ELSE SubSeq(list, 1, i - 1) \o <<n>> \o SubSeq(list, i, Len(list))

\* the paths of all import specifiers of the file, in source order
AllImportPaths(h) ==
    LET ds == Filter(h[file].kids,
                     {d \in Range(h[file].kids) : h[d].kind = "GenDecl" /\ h[d].val = <<"import">>})
    IN  Flatten([i \in 1..Len(ds) |->
            [j \in 1..Len(h[ds[i]].kids) |-> Unquote(h[h[h[ds[i]].kids[j]].kids[1]].val)]])

NoDuplicates(s) == \A i, j \in 1..Len(s) : s[i] = s[j] => i = j

\* what Paths() returns where it returns
PathsOf(h) == IF imports.specs = Nil THEN <<>> ELSE ImportPaths(h, imports)

RECURSIVE TextEqual(_, _, _)
\* two nodes print the same text
TextEqual(h, a, b) ==
    /\ h[a].kind = h[b].kind
    /\ h[a].val = h[b].val
    /\ Len(h[a].kids) = Len(h[b].kids)
    /\ \A i \in 1..Len(h[a].kids) : TextEqual(h, h[a].kids[i], h[b].kids[i])

\* C1: InsertBefore / InsertAfter on an anchor statement (assignment, if,
\* switch, expression-statement call) that is in a block of the file yields
\* that block's list with the new statement right before / right after the
\* anchor, every other statement kept once and in order.
C1_InsertedAtAnchor ==
    (/\ last.type \in StmtTypes
     /\ last.op \in {"InsertAfter", "InsertBefore"}
     /\ Anchor # Nil
     /\ before[Anchor].kind \in {"AssignStmt", "IfStmt", "SwitchStmt", "ExprStmt"})
    => \A b \in BlocksContaining(before, Anchor) :
          /\ ~last.panicked
          /\ heap[b].kids = Inserted(before[b].kids, Anchor, last.arg, last.op)

\* C2: Remove, InsertBefore, InsertAfter and Replace through a handle whose
\* chain holds no BlockStmt neither panic nor change the tree.
C2_NoBlockIsNoOp ==
    (/\ last.type \in StmtTypes
     /\ last.op \in {"Remove", "InsertAfter", "InsertBefore", "Replace"}
     /\ FindUpstreamNode(before, last.Parent, "BlockStmt") = Nil)
    => (~last.panicked /\ Tree(heap) = Tree(before))

\* C3: FunctionCalls() returns every call expression of the file exactly
\* once, each under the scope of the function declaration that encloses it,
\* under the zero Scope when it is at top level.
C3_CallsUnderEnclosingFunc ==
    (resultKind = "FunctionCall" /\ nops = 0)
    => LET calls == {n \in InTree(heap) : heap[n].kind = "CallExpr"}
       IN  /\ Len(result) = Cardinality(calls)
           /\ \A c \in calls : Cardinality({i \in 1..Len(result) : result[i].Node = c}) = 1
           /\ \A i \in 1..Len(result) :
                result[i].scope = EnclosingFunc(heap, result[i].Node)

\* C4: on a file whose imports do not contain p, Add(p) does not fail and
\* leaves Paths() as it was with p appended; a further Add(p) changes nothing.
C4_AddAppendsOnce ==
    (last.type = "Imports" /\ last.op = "Add")
    => /\ last.arg \notin Range(AllImportPaths(before))
            => (~last.panicked /\ PathsOf(heap) = PathsOf(before) \o <<last.arg>>)
       /\ last.arg \in Range(PathsOf(before))
            => (~last.panicked /\ PathsOf(heap) = PathsOf(before))

\* C5: after an Add on a file that was parsed without duplicate import
\* paths, no import path occurs twice among the file's import specifiers.
C5_NoDuplicateAfterAdd ==
    (/\ last.type = "Imports"
     /\ last.op = "Add"
     /\ NoDuplicates(Flatten([i \in 1..Len(input.decls) |->
            IF input.decls[i].t = "import" THEN input.decls[i].body ELSE <<>>])))
    => NoDuplicates(AllImportPaths(heap))

\* C6: Remove(p) does not fail and deletes every import specifier of the
\* file whose path is p, keeping the others in order (so nothing changes
\* when p is not imported).
C6_RemoveDeletesAll ==
    (last.type = "Imports" /\ last.op = "Remove")
    => /\ ~last.panicked
       /\ AllImportPaths(heap) =
            Filter(AllImportPaths(before), Range(AllImportPaths(before)) \ {last.arg})

\* C7: New reports a text that does not parse as a non-nil error and
\* returns no SourceFile, and returns a nil error for a text that parses.
\* (An error value is something New returns: the call comes back.)
C7_ParseErrorReturned ==
    (last.op = "New")
    => /\ ~last.panicked
       /\ ParseOK(input) <=> file # Nil

\* C8: Remove of an absent target (an import path that is not imported, a
\* statement that is no longer in the file) does not fail and leaves the
\* tree and the printed file as they were.
C8_RemoveAbsentIsNoOp ==
    /\ (/\ last.type = "Imports"
        /\ last.op = "Remove"
        /\ last.arg \notin Range(AllImportPaths(before)))
       => (/\ ~last.panicked
           /\ Tree(heap) = Tree(before)
           /\ SourceCode(heap, file) = SourceCode(before, file))
    /\ (/\ last.type \in StmtTypes
        /\ last.op = "Remove"
        /\ Anchor \notin InTree(before))
       => (/\ ~last.panicked
           /\ Tree(heap) = Tree(before)
           /\ SourceCode(heap, file) = SourceCode(before, file))

\* the top-level statements of the body of the function the target of the
\* last mutation lies in
TargetList(h) == h[Body(h, EnclosingFunc(before, last.Node))].kids

\* an Assignment.Remove or Assignment.Replace on a top-level statement of a
\* function body
OnBodyAssignment ==
    /\ last.type = "Assignment"
    /\ last.op \in {"Remove", "Replace"}
    /\ EnclosingFunc(before, last.Node) # Nil
    /\ last.Node \in Range(TargetList(before))

\* the other statements of that body with the same text as the target
\* that were parsed from the file
Twins ==
    {t \in Range(TargetList(before)) :
        t # last.Node /\ t <= file /\ TextEqual(before, t, last.Node)}

C10_ChainIsAncestry ==
    (resultKind \in StmtTypes \cup {"TraverseAst"} /\ nops = 0)
    => \A i \in 1..Len(result) :
          LET hd == result[i]
              d  == Depth(heap, hd.Node)
          IN  hd.Node # Nil
              => /\ Len(hd.Parent) >= d
                 /\ d > 0 => hd.Parent[d] = file
                 /\ \A j \in 1..d :
                        /\ hd.Parent[j] # Nil
                        /\ hd.Parent[j] # hd.Node
                        /\ hd.Node \in Reach(heap, hd.Parent[j])

\* C19: Remove, InsertBefore and InsertAfter on an if statement, a switch
\* statement or an expression-statement call that is in a block of the file
\* act on that block: the block the primitive finds through the handle's
\* chain is the one whose list holds the statement.
C19_ActsOnContainingBlock ==
    (/\ last.type \in {"IfStmt", "SwitchStmt", "FunctionCall"}
     /\ last.op \in {"Remove", "InsertAfter", "InsertBefore"}
     /\ Anchor # Nil
     /\ before[Anchor].kind \in {"IfStmt", "SwitchStmt", "ExprStmt"})
    => \A b \in BlocksContaining(before, Anchor) :
          FindUpstreamNode(before, last.Parent, "BlockStmt") = b

\* list with its element a replaced by the elements of body
Spliced(list, a, body) ==
    Flatten([i \in 1..Len(list) |-> IF list[i] = a THEN body ELSE <<list[i]>>])

\* C20: RemoveCondition on an if statement of a block of the file leaves
\* that block's list as it was with the if statement replaced by the
\* statements of its body, every other statement kept in its place.
C20_ConditionOnlyRemoved ==
    (last.type = "IfStmt" /\ last.op = "RemoveCondition")
    => \A b \in BlocksContaining(before, last.Node) :
          /\ ~last.panicked
          /\ heap[b].kids =
                Spliced(before[b].kids, last.Node, before[IfBody(before, last.Node)].kids)

\* the SourceCode() calls made on a file as parsed, before any mutation
Fresh(e) == e.nops = 0 /\ e.iops = 0

Collected ==
    [FunctionCall |-> "CallExpr", Function |-> "FuncDecl", TypeDeclaration |-> "TypeSpec",
     IfStmt |-> "IfStmt", SwitchStmt |-> "SwitchStmt", Assignment |-> "AssignStmt"]

\* the composite literals of the file whose type is the map type t
MapLiterals(h, t) ==
    {n \in InTree(h) :
        /\ h[n].kind = "CompositeLit"
        /\ h[LitType(h, n)].kind = "MapType"
        /\ h[h[LitType(h, n)].kids[1]].val = <<t[2]>>
        /\ h[h[LitType(h, n)].kids[2]].val = <<t[3]>>}

\* C11: a query on a file with no node of its category, or none that
\* passes its filter, does not fail and returns an empty result.
C11_NoMatchIsEmpty ==
    /\ (/\ resultKind \in DOMAIN Collected
        /\ nops = 0
        /\ \A n \in InTree(heap) : heap[n].kind # Collected[resultKind])
       => (pc = "ready" /\ result = <<>>)
    /\ (/\ resultKind = "FoundAssignment"
        /\ nops = 0
        /\ \A n \in InTree(heap) :
              heap[n].kind = "AssignStmt" => heap[heap[n].kids[1]].val # last.arg)
       => (pc = "ready" /\ result = <<>>)
    /\ (resultKind = "Map" /\ nops = 0 /\ MapLiterals(heap, last.arg) = {})
       => (~last.panicked /\ result = <<>>)

\* the elements of the literal of the last call, and their keys that are
\* string literals reading key
LastElts == Elts(before, last.Node)

KeysReading(key) ==
    {before[e].kids[1] : e \in {x \in Range(LastElts) :
        IsLitKeyed(before, x) /\ Unquote(before[before[x].kids[1]].val) = key}}

\* C12: RenameKey(old, new) does not fail and changes the text of the keys
\* equal to old, and nothing else: not a value, not another key, not the
\* order of the elements (so nothing at all when old is not a key).
C12_RenameKeyFrame ==
    (last.type = "Map" /\ last.op = "RenameKey")
    => /\ ~last.panicked
       /\ heap = [a \in 1..Len(before) |->
                    IF a \in KeysReading(last.arg[1])
                    THEN [before[a] EXCEPT !.val = Quote(last.arg[2])]
                    ELSE before[a]]

\* C13: Has(key) does not fail, and returns whether some element of the
\* literal has a key equal to key.
C13_HasNeverFails ==
    (last.type = "Map" /\ last.op = "Has")
    => /\ ~last.panicked
       /\ last.ret = (KeysReading(last.arg) # {})

\* the elements of the literal whose key is the field name key, by index
Keyed(key) ==
    {i \in 1..Len(LastElts) :
        IsIdentKeyed(before, LastElts[i]) /\ before[before[LastElts[i]].kids[1]].val = key}

\* C14: Field(key) on a struct literal returns the value expression of the
\* (first) element whose key is key, and panics when no element has it.
C14_FieldReturnsOrPanics ==
    (/\ last.type = "Struct"
     /\ last.op = "Field"
     /\ before[LitType(before, last.Node)].val = StructType)
    => IF Keyed(last.arg) = {}
       THEN last.panicked
       ELSE /\ ~last.panicked
            /\ last.ret = before[LastElts[Min(Keyed(last.arg))]].kids[2]
            /\ heap = before

\* Field found the second field of a struct literal
C14_Witness ==
    /\ last.type = "Struct"
    /\ last.op = "Field"
    /\ before[LitType(before, last.Node)].val = StructType
    /\ Keyed(last.arg) = {2}
    /\ ~last.panicked

\* Field was asked for a field a keyed struct literal does not name
C14_WitnessAbsent ==
    /\ last.type = "Struct"
    /\ last.op = "Field"
    /\ before[LitType(before, last.Node)].val = StructType
    /\ Len(LastElts) = 1
    /\ IsIdentKeyed(before, LastElts[1])
    /\ Keyed(last.arg) = {}
    /\ last.panicked

\* the positions of the list handed to the loop that hold a context
\* parameter, or the value a call passes for one
Contexts == {i \in 1..Len(input.list) : IsContext(input.site, input.list[i])}

\* C15: the swap loop over a list with one context parameter leaves that
\* parameter first and every other parameter one place to the right of
\* where it was, in the original order, whatever the length of the list.
C15_OthersShiftedRight ==
    (last.op = "Swap" /\ Cardinality(Contexts) = 1)
    => result = [k \in 1..Len(input.list) |->
                    IF k = 1 THEN input.list[Min(Contexts)]
                    ELSE IF k <= Min(Contexts) THEN input.list[k - 1]
                    ELSE input.list[k]]

\* C15, amended: the swap loop over a list with one context parameter
\* exchanges that parameter with the first one and leaves every other
\* parameter where it was.
C15_ContextExchangedWithFirst ==
    (last.op = "Swap" /\ Cardinality(Contexts) = 1)
    => /\ Len(result) = Len(input.list)
       /\ \A k \in 1..Len(result) :
            result[k] = IF k = 1 THEN input.list[Min(Contexts)]
                        ELSE IF k = Min(Contexts) THEN input.list[1]
                        ELSE input.list[k]

\* the loop ran over a list of three whose last element is the one context
\* parameter
C15_Witness ==
    /\ last.op = "Swap"
    /\ Len(input.list) = 3
    /\ Contexts = {3}
    /\ result[1] = input.list[3]

\* a bare fragment: statements alone, or one declaration alone
IsFragment(text) ==
    /\ ~text.pkg
    /\ \/ text.decls = <<>> /\ text.stmts # <<>>
       \/ text.decls # <<>> /\ text.stmts = <<>>

\* the statements a fragment consists of; a declaration in statement
\* position is one statement
FragmentStmts(text) == text.decls \o text.stmts

\* node n of h is the statement written s
IsStmtOf(h, n, s) ==
    CASE s.t = "assign" -> h[n].kind = "AssignStmt" /\ h[h[n].kids[1]].val = <<"x">>
      [] s.t = "call" -> h[n].kind = "ExprStmt" /\ h[h[h[n].kids[1]].kids[1]].val = <<"f">>
      [] s.t = "funcall" ->
            h[n].kind = "ExprStmt" /\ h[h[h[n].kids[1]].kids[1]].val = <<"my", "func">>
      [] s.t = "if" -> h[n].kind = "IfStmt"
      [] s.t = "var" -> h[n].kind = "DeclStmt"
      [] s.t \in {"func", "import"} -> h[n].kind \in {"FuncDecl", "GenDecl", "DeclStmt"}

\* C16: Ast on a bare statement or declaration fragment does not fail; it
\* returns the statement itself when the fragment is one statement, and a
\* block of the statements in source order when it is more than one.
C16_FragmentAccepted ==
    (last.op = "Ast" /\ IsFragment(input))
    => /\ ~last.panicked
       /\ IF Len(FragmentStmts(input)) = 1
          THEN IsStmtOf(heap, last.Node, FragmentStmts(input)[1])
          ELSE /\ heap[last.Node].kind = "BlockStmt"
               /\ Len(heap[last.Node].kids) = Len(FragmentStmts(input))
               /\ \A i \in 1..Len(FragmentStmts(input)) :
                    IsStmtOf(heap, heap[last.Node].kids[i], FragmentStmts(input)[i])

\* C21: Remove deletes, and Replace(n) puts n in the place of, the located
\* assignment in the statement list that holds it, at any depth inside a
\* function; every other statement list of the file is as it was.
C21_ActsAtAnyDepth ==
    (/\ last.type = "Assignment"
     /\ last.op \in {"Remove", "Replace"}
     /\ last.Node \in InTree(before))
    => /\ ~last.panicked
       /\ \A b \in {x \in InTree(before) : before[x].kind = "BlockStmt"} :
            heap[b].kids =
                IF last.op = "Remove"
                THEN Filter(before[b].kids, Range(before[b].kids) \ {last.Node})
                ELSE [i \in 1..Len(before[b].kids) |->
                        IF before[b].kids[i] = last.Node THEN last.arg
                        ELSE before[b].kids[i]]

\* the place of a node of the file in source order: the step of the walk
\* that enters it
SourceIndex(h, n) == Min({k \in 1..Len(Walk(h, file)) : Walk(h, file)[k] = n})

\* C22: Assignments() returns every assignment statement of the file
\* exactly once, under the function declaration that encloses it, and the
\* assignments of one scope in the order they are written in the source.
C22_AssignmentsInSourceOrder ==
    (resultKind = "Assignment" /\ nops = 0)
    => /\ \A a \in {n \in InTree(heap) : heap[n].kind = "AssignStmt"} :
            Cardinality({i \in 1..Len(result) : result[i].Node = a}) = 1
       /\ \A i \in 1..Len(result) :
            /\ heap[result[i].Node].kind = "AssignStmt"
            /\ result[i].scope = EnclosingFunc(heap, result[i].Node)
       /\ \A i, j \in 1..Len(result) :
            (i < j /\ result[i].scope = result[j].scope)
            => SourceIndex(heap, result[i].Node) < SourceIndex(heap, result[j].Node)

\* the assignment is one the target names: by its whole text, or by a
\* left-hand side
Named(a, target) ==
    \/ NormalizeString(AssignText(a)) = NormalizeString(target)
    \/ \E i \in 1..Len(a.Lhs) : LhsMatches(a.Lhs[i], target)

\* C23: FindAssignments(target) returns the assignments the target names,
\* each exactly once, and no other.
C23_EachMatchOnce ==
    (last.op = "FindAssignments" /\ resultKind = "FoundAssignment" /\ file = Nil)
    => \A i \in 1..Len(input) :
          Cardinality({k \in 1..Len(result) : result[k] = input[i]})
            = IF Named(input[i], last.arg) THEN 1 ELSE 0

\* the positions left in the structs of the node
PositionsLeft(h) ==
    {<<a, i>> \in (1..Len(h)) \X (1..5) :
        i <= Len(h[a].fields) /\ h[a].fields[i].k = "Pos" /\ h[a].fields[i].v # 0}

\* C24: whenever Ast returns a node, every position field of its sub-tree
\* is zero, however many calls were made before.
C24_AllPositionsZeroed ==
    (pc = "ready" /\ last.op = "Ast") => PositionsLeft(heap) = {}

\* the goroutines that hold the semaphore: cloning, transforming or pushing
Processing == {i \in DOMAIN worker : worker[i].pc \notin {"acquire", "exited"}}

\* C25: at no time are more than 10 repositories being processed, however
\* many repositories are given and however the goroutines interleave.
C25_AtMostTenProcessed == Cardinality(Processing) <= SemWeight

\* C25 witness: ten repositories are being processed and an eleventh waits
\* for the semaphore.
C25_Witness ==
    /\ Cardinality(Processing) = SemWeight
    /\ \E i \in DOMAIN worker : worker[i].pc = "acquire"

\* C26: while repositories are processed concurrently, the files of a clone
\* are rewritten only by the worker of its own repository, and the working
\* directory a worker entered is still the process's when it walks it.
C26_OneWorkerPerFile ==
    /\ \A c \in disk : c.touched \subseteq {c.url}
    /\ \A i \in DOMAIN worker : worker[i].pc = "transform" => cwd = worker[i].dir

\* how many times a repository is in a list
CountIn(list, repository) == Cardinality({k \in 1..Len(list) : list[k] = repository})

InExactlyOneList(repository) ==
    CountIn(applyResult.Changed, repository) + CountIn(applyResult.NotChanged, repository)
        + CountIn(applyResult.WithErrors, repository) = 1

\* the applyCodemod closure of every goroutine has returned
PipelinesFinished ==
    /\ mainPc = "waiting"
    /\ \A i \in DOMAIN worker :
        worker[i].pc \in {"lock", "append", "done", "unlock", "release", "exited"}

\* C27: once the pipeline of every worker has finished,
\* applyCodemodsToRemoteRepositories eventually returns, and when it has
\* returned every input repository is in exactly one of Changed, NotChanged
\* and WithErrors, under every interleaving.
C27_ReturnsEveryRepositoryOnce ==
    /\ [](mainPc = "returned" =>
            \A i \in 1..Len(input.repositories) : InExactlyOneList(input.repositories[i]))
    /\ (PipelinesFinished ~> mainPc = "returned")

\* C27 witness: the function has returned with one repository not changed
\* and another one failed.
C27_Witness ==
    /\ mainPc = "returned"
    /\ Len(applyResult.NotChanged) = 1
    /\ Len(applyResult.WithErrors) = 1

\* C28: applyCodemodsToDirectory never propagates the panic of a transform:
\* it returns the panic's value when that is an error, an error with the
\* message "unexpected panic => <value>" when it is not, and nil when every
\* transform completes.
C28_PanicsBecomeErrors ==
    last.op = "applyCodemodsToDirectory" =>
        /\ ~last.panicked
        /\ last.arg.kind = "error" => last.ret = last.arg
        /\ last.arg.kind \in {"string", "nil"} =>
                last.ret = ErrorOf(<<"unexpected panic => ">> \o last.arg.text)
        /\ last.arg = Completes => last.ret = NoError

\* C29: when applying the codemods failed, Apply returns a non-nil error.
C29_ApplyReturnsFailure ==
    (pc = "applyReturned" /\ result.local # NoError) => result.apply # NoError

\* the first literal of the file that matches the type, Nil when there is
\* none
FirstMatch(handles) == IF handles = <<>> THEN Found(Nil, Nil)
                       ELSE Found(handles[1].scope, handles[1].Node)

\* C30: on an unmodified file every call of FindMapLiteral with the same
\* type returns the same scope and literal, the first matching literal of
\* the file, and (nil, nil) when no literal matches.
C30_FindMapLiteralDeterministic ==
    resultKind = "MapLiteral" =>
        /\ \A j, k \in 1..Len(result) :
                result[j].arg = result[k].arg => result[j].ret = result[k].ret
        /\ \A k \in 1..Len(result) :
                result[k].ret = FirstMatch(FindMapLiterals(heap, file, result[k].arg).handles)

====
